---- MODULE Spec2Model ----
(***************************************************************************)
(* Ploutos ledger core: transaction processors (simple_split, loan,        *)
(* salary), the shared balance validator, the rule-matching batch, and     *)
(* transfer merge / split.                                                 *)
(*                                                                         *)
(* Money is a Python float in the source.  Here an amount is an integer    *)
(* number of mills (1/1000 of the currency unit), so one cent is 10 mills  *)
(* and round(x, 2) is rounding to a multiple of 10.  A value that lies     *)
(* exactly half way between two cents is rounded in the direction the      *)
(* binary representation of the float decides; that direction is an input  *)
(* (a "tie" bit) of every operation that rounds.                           *)
(* A percentage is an integer number of hundredths of a percent            *)
(* (100 % = 10000).                                                        *)
(***************************************************************************)
EXTENDS Integers, Sequences, FiniteSets, TLC

VARIABLES
    transactions,   \* table Transactions: set of master rows
    slaves,         \* table TransactionsSlaves: set of slave rows
    rules,          \* table CategorizationRules: set of rule rows
    nextTxId,       \* next transactionId the store hands out
    nextSlaveId,    \* next slaveId the store hands out
    lastOp,         \* record describing the last handler call and its outcome
    pIn,            \* input of a direct call of process() (processor specification)
    pOut,           \* its result
    rejected        \* table RejectedTransferPairs: set of rows

vars == <<transactions, slaves, rules, nextTxId, nextSlaveId, lastOp, pIn, pOut, rejected>>

-----------------------------------------------------------------------------
(* Accounts                                                                *)

UnknownId == "acc_unknown"

AccountTable ==
    [acc_unknown |-> [name |-> "Unknown", category |-> "Unknown",
                      sub_category |-> "Unknown", is_real |-> FALSE],
     acc_bankA   |-> [name |-> "Banque A", category |-> "Banking",
                      sub_category |-> "Checking", is_real |-> TRUE],
     acc_bankB   |-> [name |-> "Banque B", category |-> "Banking",
                      sub_category |-> "Checking", is_real |-> TRUE],
     acc_food    |-> [name |-> "Food", category |-> "Expenses",
                      sub_category |-> "Groceries", is_real |-> FALSE]]

AccountIds == DOMAIN AccountTable

RealAccountIds == {a \in AccountIds : AccountTable[a].is_real}

\* base.py: the slave account is the Unknown sentinel
is_unknown(acc) ==
    /\ acc.name = "Unknown"
    /\ acc.category = "Unknown"
    /\ acc.sub_category = "Unknown"
    /\ acc.is_real = FALSE

-----------------------------------------------------------------------------
(* Arithmetic helpers                                                      *)

Abs(x) == IF x < 0 THEN -x ELSE x

Opposite(type) == IF type = "credit" THEN "debit" ELSE "credit"

\* round(n/den mills, 2): the nearest multiple of 10 mills; on an exact tie
\* the magnitude goes up when `up`, down otherwise.  den > 0.
Round2(n, den, up) ==
    LET a    == Abs(n)
        unit == den * 10
        q    == a \div unit
        r    == a % unit
        c    == IF 2 * r > unit THEN q + 1
                ELSE IF 2 * r < unit THEN q
                ELSE IF up THEN q + 1 ELSE q
    IN  IF n < 0 THEN -(c * 10) ELSE c * 10

RECURSIVE SumAmounts(_)
SumAmounts(s) ==
    IF s = <<>> THEN 0 ELSE s[1].amount + SumAmounts(Tail(s))

SelectType(s, type) == SelectSeq(s, LAMBDA x : x.type = type)

-----------------------------------------------------------------------------
(* Shared validator: TransactionProcessor._validate_transaction            *)
(* Returns "ok" or the name of the first check that raises ValueError.     *)

ValidateTransactionNoBalance(transaction, new_slaves, tie) ==
    IF Len(transaction.TransactionsSlaves) # 1 THEN "slave_count"
    ELSE IF ~ is_unknown(transaction.TransactionsSlaves[1].Accounts)
    THEN "not_unknown"
    ELSE "ok"

\* the validator with the balance check made first
ValidateTransactionBalanceFirst(transaction, new_slaves, tie) ==
    LET master_amount == transaction.amount
        total_credit  == SumAmounts(SelectType(new_slaves, "credit"))
        total_debit   == SumAmounts(SelectType(new_slaves, "debit"))
        signed_master ==
            Round2(IF transaction.type = "debit" THEN -master_amount
                   ELSE master_amount, 1, tie.m)
        signed_slaves == Round2(-(total_credit - total_debit), 1, tie.s)
    IN  IF signed_master # signed_slaves THEN "balance"
        ELSE IF Len(transaction.TransactionsSlaves) # 1 THEN "slave_count"
        ELSE IF ~ is_unknown(transaction.TransactionsSlaves[1].Accounts)
        THEN "not_unknown"
        ELSE "ok"

ValidateTransaction(transaction, new_slaves, tie) ==
    IF Len(transaction.TransactionsSlaves) # 1 THEN "slave_count"
    ELSE IF ~ is_unknown(transaction.TransactionsSlaves[1].Accounts)
    THEN "not_unknown"
    ELSE
      LET master_amount == transaction.amount
          total_credit  == SumAmounts(SelectType(new_slaves, "credit"))
          total_debit   == SumAmounts(SelectType(new_slaves, "debit"))
          signed_master ==
              Round2(IF transaction.type = "debit" THEN -master_amount
                     ELSE master_amount, 1, tie.m)
          signed_slaves == Round2(-(total_credit - total_debit), 1, tie.s)
      IN  IF signed_master # signed_slaves THEN "balance" ELSE "ok"

Failure(msg) == [success |-> FALSE, slaves |-> <<>>, error_message |-> msg]

Success(new_slaves) ==
    [success |-> TRUE, slaves |-> new_slaves, error_message |-> "none"]

SlaveCreate(masterId, accountId, amount, type, date) ==
    [masterId |-> masterId, accountId |-> accountId, amount |-> amount,
     type |-> type, date |-> date]

-----------------------------------------------------------------------------
(* SimpleSplitProcessor                                                    *)

RECURSIVE SumPercentages(_)
SumPercentages(s) ==
    IF s = <<>> THEN 0 ELSE s[1].percentage + SumPercentages(Tail(s))

\* the field constraints without the validator of the sum
SimpleSplitConfigValidNoSum(config) ==
    /\ Len(config.splits) >= 1
    /\ \A i \in 1..Len(config.splits) :
          config.splits[i].percentage > 0 /\ config.splits[i].percentage <= 10000

\* SplitItem (gt=0, le=100), splits min_length=1, validate_percentages
SimpleSplitConfigValid(config) ==
    /\ Len(config.splits) >= 1
    /\ \A i \in 1..Len(config.splits) :
          /\ config.splits[i].percentage > 0
          /\ config.splits[i].percentage <= 10000
    /\ SumPercentages(config.splits) = 10000

LastAmountNoAdjust(master_amount_abs, sum_previous, last_split, tie) ==
    Round2(master_amount_abs * last_split.percentage, 10000, tie.gen)

LastAmount(master_amount_abs, sum_previous, last_split, tie) ==
    master_amount_abs - sum_previous

SimpleSplitSlaves(transaction, config, tie) ==
    LET slave_type == IF transaction.type = "credit" THEN "debit" ELSE "credit"
        master_amount_abs == Abs(transaction.amount)
        n == Len(config.splits)
        previous ==
            [i \in 1..(n - 1) |->
                SlaveCreate(transaction.transactionId,
                            config.splits[i].account_id,
                            Round2(master_amount_abs * config.splits[i].percentage,
                                   10000, tie.gen),
                            slave_type, transaction.date)]
        sum_previous == SumAmounts(previous)
        last_slave ==
            SlaveCreate(transaction.transactionId,
                        config.splits[n].account_id,
                        LastAmount(master_amount_abs, sum_previous,
                                   config.splits[n], tie),
                        slave_type, transaction.date)
    IN  Append(previous, last_slave)

SimpleSplitProcess(transaction, config, tie) ==
    LET new_slaves == SimpleSplitSlaves(transaction, config, tie)
        check      == ValidateTransaction(transaction, new_slaves, tie)
    IN  IF check = "ok" THEN Success(new_slaves) ELSE Failure(check)

-----------------------------------------------------------------------------
(* Rational arithmetic for the amortization schedule.  A rational is a     *)
(* pair <<numerator, denominator>> with a positive denominator, kept in    *)
(* lowest terms.                                                           *)

RECURSIVE GCD(_, _)
GCD(a, b) == IF b = 0 THEN a ELSE GCD(b, a % b)

RNorm(n, d) ==
    LET g == GCD(Abs(n), d) IN
    IF n = 0 THEN <<0, 1>> ELSE <<n \div g, d \div g>>

RInt(n) == <<n, 1>>

\* x + s * y for s = 1 or -1, over the least common denominator
RAddSigned(x, y, s) ==
    LET g == GCD(x[2], y[2])
        l == (x[2] \div g) * y[2]
    IN  RNorm(x[1] * (l \div x[2]) + s * y[1] * (l \div y[2]), l)

RAdd(x, y) == RAddSigned(x, y, 1)

RSub(x, y) == RAddSigned(x, y, -1)

RMul(x, y) ==
    LET a == RNorm(x[1], y[2])
        b == RNorm(y[1], x[2])
    IN  RNorm(a[1] * b[1], a[2] * b[2])

\* y > 0
RDiv(x, y) == RMul(x, <<y[2], y[1]>>)

RECURSIVE RPow(_, _)
RPow(x, n) == IF n = 0 THEN RInt(1) ELSE RMul(x, RPow(x, n - 1))

-----------------------------------------------------------------------------
(* LoanProcessor                                                           *)

\* LoanConfig field constraints (annual_rate is an integer percentage here)
LoanConfigValid(config) ==
    /\ config.loan_amount > 0
    /\ config.annual_rate >= 0
    /\ config.annual_rate <= 100
    /\ config.duration_months > 0

\* M = P * [r(1+r)^n] / [(1+r)^n - 1], or P / n when the rate is 0
calculate_monthly_payment(principal, annual_rate, months) ==
    IF annual_rate = 0 THEN RNorm(principal, months)
    ELSE
      LET monthly_rate == RNorm(annual_rate, 1200)
          growth       == RPow(RAdd(RInt(1), monthly_rate), months)
          numerator    == RMul(monthly_rate, growth)
          denominator  == RSub(growth, RInt(1))
      IN  RMul(RInt(principal), RDiv(numerator, denominator))

\* get_payment_number counting whole months from the day of start_date
get_payment_number_by_day(transaction_date, start_date) ==
    LET months_diff == (transaction_date.y - start_date.y) * 12
                       + (transaction_date.m - start_date.m)
                       - (IF transaction_date.d < start_date.d THEN 1 ELSE 0)
    IN  IF months_diff < 0 THEN 0 ELSE months_diff + 1

\* months_diff + 1, or 0 for the ValueError raised when months_diff < 0
get_payment_number(transaction_date, start_date) ==
    LET months_diff == (transaction_date.y - start_date.y) * 12
                       + (transaction_date.m - start_date.m)
    IN  IF months_diff < 0 THEN 0 ELSE months_diff + 1

\* the loop body in which the last payment leaves the balance as it was
RECURSIVE BreakdownLoopKeepBalance(_, _, _, _, _, _)
BreakdownLoopKeepBalance(period, payment_number, config, monthly_payment, monthly_rate, acc) ==
    IF period > payment_number THEN acc
    ELSE
      LET interest_payment  == RMul(acc.remaining, monthly_rate)
          principal_payment == RSub(monthly_payment, interest_payment)
          next ==
              IF period = config.duration_months
              THEN [principal |-> acc.remaining,
                    interest  |-> RSub(monthly_payment, acc.remaining),
                    remaining |-> acc.remaining]
              ELSE [principal |-> principal_payment,
                    interest  |-> interest_payment,
                    remaining |-> RSub(acc.remaining, principal_payment)]
      IN  BreakdownLoopKeepBalance(period + 1, payment_number, config,
                                   monthly_payment, monthly_rate, next)

\* the loop body of calculate_payment_breakdown, periods period..payment_number
RECURSIVE BreakdownLoop(_, _, _, _, _, _)
BreakdownLoop(period, payment_number, config, monthly_payment, monthly_rate, acc) ==
    IF period > payment_number THEN acc
    ELSE
      LET interest_payment  == RMul(acc.remaining, monthly_rate)
          principal_payment == RSub(monthly_payment, interest_payment)
          next ==
              IF period = config.duration_months
              THEN [principal |-> acc.remaining,
                    interest  |-> RSub(monthly_payment, acc.remaining),
                    remaining |-> RInt(0)]
              ELSE [principal |-> principal_payment,
                    interest  |-> interest_payment,
                    remaining |-> RSub(acc.remaining, principal_payment)]
      IN  BreakdownLoop(period + 1, payment_number, config, monthly_payment,
                        monthly_rate, next)

calculate_payment_breakdown(payment_number, config, tie) ==
    LET monthly_payment == calculate_monthly_payment(
                               config.loan_amount, config.annual_rate,
                               config.duration_months)
        monthly_rate == RNorm(config.annual_rate, 1200)
        final == BreakdownLoop(1, payment_number, config, monthly_payment,
                               monthly_rate,
                               [principal |-> RInt(0), interest |-> RInt(0),
                                remaining |-> RInt(config.loan_amount)])
    IN  [principal |-> Round2(final.principal[1], final.principal[2], tie.gen),
         interest  |-> Round2(final.interest[1], final.interest[2], tie.gen),
         remaining |-> Round2(final.remaining[1], final.remaining[2], tie.gen)]

\* LoanSlaves with the capital taken from the schedule and the interest
\* absorbing the difference
LoanSlavesCapitalFirst(transaction, config, payment_number, tie) ==
    LET principal == calculate_payment_breakdown(payment_number, config, tie).principal
        actual_amount == Abs(transaction.amount)
        interest_amount == Round2(actual_amount - principal, 1, tie.gen)
    IN  << SlaveCreate(transaction.transactionId, config.interest_account_id,
                       interest_amount, "credit", transaction.date),
           SlaveCreate(transaction.transactionId, config.capital_account_id,
                       principal, "credit", transaction.date) >>

LoanSlaves(transaction, config, payment_number, tie) ==
    LET interest == calculate_payment_breakdown(payment_number, config, tie).interest
        actual_amount == Abs(transaction.amount)
        capital_amount == Round2(actual_amount - interest, 1, tie.gen)
    IN  << SlaveCreate(transaction.transactionId, config.interest_account_id,
                       interest, "credit", transaction.date),
           SlaveCreate(transaction.transactionId, config.capital_account_id,
                       capital_amount, "credit", transaction.date) >>

LoanProcess(transaction, config, tie) ==
    IF transaction.type # "debit" THEN Failure("not_debit")
    ELSE
      LET payment_number == get_payment_number(transaction.date, config.start_date)
      IN  IF payment_number = 0 THEN Failure("before_start")
          ELSE IF payment_number > config.duration_months
          THEN Failure("exceeds_term")
          ELSE
            LET new_slaves == LoanSlaves(transaction, config, payment_number, tie)
                check      == ValidateTransaction(transaction, new_slaves, tie)
            IN  IF check = "ok" THEN Success(new_slaves) ELSE Failure(check)

-----------------------------------------------------------------------------
(* SalaryProcessor: process() raises NotImplementedError inside its own    *)
(* try block and returns the failure result.                               *)

\* a process() of the salary processor that returns success without slaves
SalaryProcessStub(transaction, config, tie) == Success(<<>>)

SalaryProcess(transaction, config, tie) == Failure("not_implemented")

\* the processor named by processor_type, applied to a validated config
Process(processor_type, transaction, config, tie) ==
    IF processor_type = "simple_split" THEN SimpleSplitProcess(transaction, config, tie)
    ELSE IF processor_type = "loan" THEN LoanProcess(transaction, config, tie)
    ELSE SalaryProcess(transaction, config, tie)

-----------------------------------------------------------------------------
(* Ledger store.  A query without an ORDER BY clause returns its rows by   *)
(* ascending id.                                                           *)

RECURSIVE TxSeq(_)
TxSeq(S) ==
    IF S = {} THEN <<>>
    ELSE LET x == CHOOSE e \in S : \A f \in S : e.transactionId <= f.transactionId
         IN  <<x>> \o TxSeq(S \ {x})

RECURSIVE SlaveSeq(_)
SlaveSeq(S) ==
    IF S = {} THEN <<>>
    ELSE LET x == CHOOSE e \in S : \A f \in S : e.slaveId <= f.slaveId
         IN  <<x>> \o SlaveSeq(S \ {x})

SlavesOf(slv, masterId) == {sl \in slv : sl.masterId = masterId}

\* the embedded resource TransactionsSlaves (*, Accounts (*)) of a row
EmbedSlaves(S) ==
    LET ordered == SlaveSeq(S)
    IN  [i \in 1..Len(ordered) |->
            [slaveId |-> ordered[i].slaveId, masterId |-> ordered[i].masterId,
             accountId |-> ordered[i].accountId, amount |-> ordered[i].amount,
             type |-> ordered[i].type, date |-> ordered[i].date,
             Accounts |-> AccountTable[ordered[i].accountId]]]

TxRow(tx, embedded) ==
    [transactionId |-> tx.transactionId, description |-> tx.description,
     date |-> tx.date, type |-> tx.type, amount |-> tx.amount,
     accountId |-> tx.accountId, TransactionsSlaves |-> EmbedSlaves(embedded)]

\* registry filled by the imports of ploutos.processors
Registry == {"simple_split", "loan"}

\* processor.validate_config(processor_config)
ConfigValid(processor_type, config) ==
    IF processor_type = "simple_split" THEN SimpleSplitConfigValid(config)
    ELSE IF processor_type = "loan" THEN LoanConfigValid(config)
    ELSE TRUE

-----------------------------------------------------------------------------
(* Matching service                                                        *)

\* a description is a sequence of upper-case words; ilike on it
IsPrefix(p, d) == Len(p) <= Len(d) /\ SubSeq(d, 1, Len(p)) = p

Contains(p, d) ==
    \E i \in 0..(Len(d) - Len(p)) : SubSeq(d, i + 1, i + Len(p)) = p

MatchTypes ==
    {"contains", "starts_with", "exact", "amount_gt", "amount_lt",
     "amount_gte", "amount_lte", "amount_eq"}

\* _apply_condition_filter raises ValueError for any other match type
ConditionRaises(condition) == condition.match_type \notin MatchTypes

\* the row filter _apply_condition_filter adds to the query
ConditionHolds(tx, condition) ==
    LET match_type == condition.match_type
        value      == condition.match_value
    IN  IF match_type = "contains" THEN Contains(value, tx.description)
        ELSE IF match_type = "starts_with" THEN IsPrefix(value, tx.description)
        ELSE IF match_type = "exact" THEN tx.description = value
        ELSE IF match_type = "amount_gt" THEN tx.amount > value
        ELSE IF match_type = "amount_lt" THEN tx.amount < value
        ELSE IF match_type = "amount_gte" THEN tx.amount >= value
        ELSE IF match_type = "amount_lte" THEN tx.amount <= value
        ELSE tx.amount = value

\* _build_base_query: masters with a slave on the Unknown sentinel (inner
\* joins: the embedded slaves are the ones that pass the account filter),
\* restricted by account_ids and by processor_config.transaction_filter
BaseQuery(txs, slv, rule) ==
    { TxRow(tx, {sl \in SlavesOf(slv, tx.transactionId) :
                    is_unknown(AccountTable[sl.accountId])}) :
      tx \in { t \in txs :
                 /\ \E sl \in SlavesOf(slv, t.transactionId) :
                        is_unknown(AccountTable[sl.accountId])
                 /\ (rule.account_ids # {} => t.accountId \in rule.account_ids)
                 /\ (rule.processor_config.transaction_filter # "all"
                        => t.type = rule.processor_config.transaction_filter) } }

_filter_single_slave(rows) ==
    SelectSeq(rows, LAMBDA tx : Len(tx.TransactionsSlaves) = 1)

\* query.range(offset, offset + page_size - 1)
Range(rows, offset, page_size) ==
    SubSeq(rows, offset + 1,
           IF offset + page_size < Len(rows) THEN offset + page_size ELSE Len(rows))

\* the while loop shared by _match_and_conditions and _match_or_conditions
RECURSIVE PageLoop(_, _, _)
PageLoop(rows, offset, page_size) ==
    LET data == Range(rows, offset, page_size)
    IN  IF data = <<>> THEN <<>>
        ELSE IF Len(data) < page_size THEN _filter_single_slave(data)
        ELSE _filter_single_slave(data) \o PageLoop(rows, offset + page_size, page_size)

_match_and_conditions(txs, slv, rule, conditions, page_size) ==
    PageLoop(TxSeq({row \in BaseQuery(txs, slv, rule) :
                          \A i \in 1..Len(conditions) :
                              ConditionHolds(row, conditions[i])}),
             0, page_size)

\* append the rows of `more` whose id is not yet in `acc`
RECURSIVE UnionById(_, _)
UnionById(acc, more) ==
    IF more = <<>> THEN acc
    ELSE IF \E i \in 1..Len(acc) : acc[i].transactionId = more[1].transactionId
         THEN UnionById(acc, Tail(more))
         ELSE UnionById(Append(acc, more[1]), Tail(more))

\* _match_or_conditions with the conditions chained as in an AND group
_match_or_as_and(txs, slv, rule, conditions, page_size) ==
    PageLoop(TxSeq({row \in BaseQuery(txs, slv, rule) :
                          \A i \in 1..Len(conditions) :
                              ConditionHolds(row, conditions[i])}),
             0, page_size)

RECURSIVE _match_or_conditions(_, _, _, _, _)
_match_or_conditions(txs, slv, rule, conditions, page_size) ==
    IF conditions = <<>> THEN <<>>
    ELSE
      LET n     == Len(conditions)
          first == _match_or_conditions(txs, slv, rule,
                                        SubSeq(conditions, 1, n - 1), page_size)
          rows  == PageLoop(TxSeq({row \in BaseQuery(txs, slv, rule) :
                                         ConditionHolds(row, conditions[n])}),
                            0, page_size)
      IN  UnionById(first, rows)

RECURSIVE MatchGroups(_, _, _, _, _)
MatchGroups(txs, slv, rule, groups, page_size) ==
    IF groups = <<>> THEN <<>>
    ELSE
      LET n     == Len(groups)
          group == groups[n]
          first == MatchGroups(txs, slv, rule, SubSeq(groups, 1, n - 1), page_size)
          matched ==
              IF group.conditions = <<>> THEN <<>>
              ELSE IF group.operator = "AND"
              THEN _match_and_conditions(txs, slv, rule, group.conditions, page_size)
              ELSE _match_or_conditions(txs, slv, rule, group.conditions, page_size)
      IN  UnionById(first, matched)

\* find_matching_transactions raises when a condition it reaches raises
FindRaises(rule) ==
    \E g \in 1..Len(rule.condition_groups) :
        \E i \in 1..Len(rule.condition_groups[g].conditions) :
            ConditionRaises(rule.condition_groups[g].conditions[i])

find_matching_transactions(txs, slv, rule, page_size) ==
    MatchGroups(txs, slv, rule, rule.condition_groups, page_size)

-----------------------------------------------------------------------------
(* Store writes.  A handler issues its writes one execute() at a time; the *)
(* store may raise on one of them (`fault` is the number of the write that *)
(* raises, 0 for none), and the writes before it stay applied.             *)

Db(txs, slv, txId, slaveId) ==
    [transactions |-> txs, slaves |-> slv, nextTxId |-> txId,
     nextSlaveId |-> slaveId, writes |-> 0, raised |-> FALSE]

\* ExecWrite in which the insert of a slave also copies the slave's amount
\* to its master
ExecWriteSyncMaster(d, w) ==
    IF w.op = "delete_slave"
    THEN [d EXCEPT !.slaves = {sl \in @ : sl.slaveId # w.slaveId}]
    ELSE IF w.op = "delete_slaves_of"
    THEN [d EXCEPT !.slaves = {sl \in @ : sl.masterId # w.masterId}]
    ELSE IF w.op = "insert_slave"
    THEN [d EXCEPT !.slaves = @ \cup
                       {[slaveId |-> d.nextSlaveId, masterId |-> w.row.masterId,
                         accountId |-> w.row.accountId, amount |-> w.row.amount,
                         type |-> w.row.type, date |-> w.row.date]},
                   !.transactions =
                       {IF t.transactionId = w.row.masterId
                        THEN [t EXCEPT !.amount = w.row.amount] ELSE t : t \in @},
                   !.nextSlaveId = @ + 1]
    ELSE IF w.op = "update_slave_account"
    THEN [d EXCEPT !.slaves =
                       {IF sl.slaveId = w.slaveId
                        THEN [sl EXCEPT !.accountId = w.accountId] ELSE sl :
                        sl \in @}]
    ELSE IF w.op = "insert_transaction"
    THEN [d EXCEPT !.transactions = @ \cup
                       {[transactionId |-> d.nextTxId,
                         description |-> w.row.description, date |-> w.row.date,
                         type |-> w.row.type, amount |-> w.row.amount,
                         accountId |-> w.row.accountId]},
                   !.nextTxId = @ + 1]
    ELSE [d EXCEPT !.transactions = {t \in @ : t.transactionId # w.transactionId}]

ExecWrite(d, w) ==
    IF w.op = "delete_slave"
    THEN [d EXCEPT !.slaves = {sl \in @ : sl.slaveId # w.slaveId}]
    ELSE IF w.op = "delete_slaves_of"
    THEN [d EXCEPT !.slaves = {sl \in @ : sl.masterId # w.masterId}]
    ELSE IF w.op = "insert_slave"
    THEN [d EXCEPT !.slaves = @ \cup
                       {[slaveId |-> d.nextSlaveId, masterId |-> w.row.masterId,
                         accountId |-> w.row.accountId, amount |-> w.row.amount,
                         type |-> w.row.type, date |-> w.row.date]},
                   !.nextSlaveId = @ + 1]
    ELSE IF w.op = "update_slave_account"
    THEN [d EXCEPT !.slaves =
                       {IF sl.slaveId = w.slaveId
                        THEN [sl EXCEPT !.accountId = w.accountId] ELSE sl :
                        sl \in @}]
    ELSE IF w.op = "insert_transaction"
    THEN [d EXCEPT !.transactions = @ \cup
                       {[transactionId |-> d.nextTxId,
                         description |-> w.row.description, date |-> w.row.date,
                         type |-> w.row.type, amount |-> w.row.amount,
                         accountId |-> w.row.accountId]},
                   !.nextTxId = @ + 1]
    ELSE \* delete_transaction
         [d EXCEPT !.transactions = {t \in @ : t.transactionId # w.transactionId}]

RECURSIVE ExecWrites(_, _, _)
ExecWrites(d, ws, fault) ==
    IF ws = <<>> THEN d
    ELSE IF d.writes + 1 = fault
    THEN [d EXCEPT !.writes = @ + 1, !.raised = TRUE]
    ELSE ExecWrites(ExecWrite([d EXCEPT !.writes = @ + 1], ws[1]), Tail(ws), fault)

-----------------------------------------------------------------------------
(* apply_processor_to_transaction                                          *)

\* the deletes of the transaction's slaves, then the inserts of the new ones
ApplyWrites(transaction, new_slaves) ==
    [i \in 1..Len(transaction.TransactionsSlaves) |->
        [op |-> "delete_slave", slaveId |-> transaction.TransactionsSlaves[i].slaveId]]
    \o
    [i \in 1..Len(new_slaves) |-> [op |-> "insert_slave", row |-> new_slaves[i]]]

\* what apply_processor_to_transaction does with the result of process():
\* a failure is returned as it is; on success the deletes and the inserts
\* are executed, and an exception raised by one of them is turned into a
\* failure result by the except branch
ApplyResult(d, transaction, result, fault) ==
    IF ~ result.success THEN [d |-> d, result |-> result]
    ELSE
      LET after == ExecWrites(d, ApplyWrites(transaction, result.slaves), fault)
      IN  IF after.raised
          THEN [d |-> [after EXCEPT !.raised = FALSE],
                result |-> Failure("store_error")]
          ELSE [d |-> after, result |-> result]

apply_processor_to_transaction(d, transaction, processor_type, processor_config, tie, fault) ==
    IF processor_type \notin Registry
    THEN [d |-> d, result |-> Failure("unknown_processor")]
    ELSE IF ~ ConfigValid(processor_type, processor_config)
    THEN [d |-> d, result |-> Failure("invalid_config")]
    ELSE ApplyResult(d, transaction,
                     Process(processor_type, transaction, processor_config, tie),
                     fault)

-----------------------------------------------------------------------------
(* process_matching                                                        *)

\* default of find_matching_transactions(db, rule, page_size)
page_size_default == 1000

\* .eq("enabled", True).order("priority", desc=True)
RECURSIVE RulesByPriority(_)
RulesByPriority(R) ==
    IF R = {} THEN <<>>
    ELSE LET x == CHOOSE e \in R : \A f \in R :
                      \/ e.priority > f.priority
                      \/ (e.priority = f.priority /\ e.ruleId <= f.ruleId)
         IN  <<x>> \o RulesByPriority(R \ {x})

EnabledRules(R) == RulesByPriority({r \in R : r.enabled})

\* transaction_id in processed_transaction_ids
AlreadyProcessedNever(processed_transaction_ids, transaction_id) == FALSE

AlreadyProcessed(processed_transaction_ids, transaction_id) ==
    transaction_id \in processed_transaction_ids

\* the counters, the processed ids and the details after the call r of
\* apply_processor_to_transaction on one matched transaction; `applies`
\* keeps each call with the stored slaves of the transaction around it
RunTransaction(st, rule, transaction_id, r) ==
    LET entry == [transactionId |-> transaction_id,
                  ruleId  |-> rule.ruleId,
                  success |-> r.result.success,
                  error   |-> r.result.error_message,
                  new     |-> r.result.slaves,
                  before  |-> SlavesOf(st.d.slaves, transaction_id),
                  after   |-> SlavesOf(r.d.slaves, transaction_id)]
    IN  IF r.result.success
        THEN [st EXCEPT
                !.d = r.d,
                !.processed = @ + 1,
                !.categorized = @ + 1,
                !.processed_transaction_ids = @ \cup {transaction_id},
                !.details = Append(@, [transaction_id |-> transaction_id,
                                       matched_rule |-> rule.ruleId]),
                !.applies = Append(@, entry)]
        ELSE [st EXCEPT
                !.d = r.d,
                !.processed = @ + 1,
                !.failed = @ + 1,
                !.applies = Append(@, entry)]

\* the loop over the matched transactions left at the first failure
RECURSIVE RunTransactionsStopOnFailure(_, _, _, _, _)
RunTransactionsStopOnFailure(st, rule, matched_txs, tie, fault) ==
    IF matched_txs = <<>> THEN st
    ELSE IF AlreadyProcessed(st.processed_transaction_ids, matched_txs[1].transactionId)
    THEN RunTransactionsStopOnFailure(st, rule, Tail(matched_txs), tie, fault)
    ELSE
      LET next == RunTransaction(st, rule, matched_txs[1].transactionId,
                                 apply_processor_to_transaction(
                                     st.d, matched_txs[1], rule.processor_type,
                                     rule.processor_config, tie, fault))
      IN  IF next.failed > st.failed THEN next
          ELSE RunTransactionsStopOnFailure(next, rule, Tail(matched_txs), tie, fault)

\* the body of `for tx_dict in matched_txs`
RECURSIVE RunTransactions(_, _, _, _, _)
RunTransactions(st, rule, matched_txs, tie, fault) ==
    IF matched_txs = <<>> THEN st
    ELSE IF AlreadyProcessed(st.processed_transaction_ids, matched_txs[1].transactionId)
    THEN RunTransactions(st, rule, Tail(matched_txs), tie, fault)
    ELSE RunTransactions(
             RunTransaction(st, rule, matched_txs[1].transactionId,
                            apply_processor_to_transaction(
                                st.d, matched_txs[1], rule.processor_type,
                                rule.processor_config, tie, fault)),
             rule, Tail(matched_txs), tie, fault)

\* the body of `for rule in rules_response.data`; an exception raised by
\* find_matching_transactions leaves the loop (HTTP 500)
RECURSIVE RunRules(_, _, _, _)
RunRules(st, rule_seq, tie, fault) ==
    IF rule_seq = <<>> THEN st
    ELSE
      LET rule == rule_seq[1]
      IN  IF FindRaises(rule) THEN [st EXCEPT !.status = 500]
          ELSE
            LET matched_txs == find_matching_transactions(
                                   st.d.transactions, st.d.slaves, rule,
                                   page_size_default)
            IN  RunRules(RunTransactions(st, rule, matched_txs, tie, fault),
                         Tail(rule_seq), tie, fault)

process_matching(d, R, tie, fault) ==
    RunRules([d |-> d, status |-> 200, processed |-> 0, categorized |-> 0,
              failed |-> 0, details |-> <<>>, applies |-> <<>>,
              processed_transaction_ids |-> {}],
             EnabledRules(R), tie, fault)

-----------------------------------------------------------------------------
(* merge_transfer                                                          *)

\* date.split("T")[0]
DateOnly(date) == [y |-> date.y, m |-> date.m, d |-> date.d]

TxById(txs, id) == {t \in txs : t.transactionId = id}

Http(status, detail) == [status |-> status, detail |-> detail]

\* the lookups and validations of merge_transfer: the HTTP error they raise,
\* or 200 when all of them pass
MergeCheckNoTypes(txs, credit_transaction_id, debit_transaction_id) ==
    IF TxById(txs, credit_transaction_id) = {}
    THEN Http(404, "Credit transaction not found")
    ELSE IF TxById(txs, debit_transaction_id) = {}
    THEN Http(404, "Debit transaction not found")
    ELSE
      LET credit_tx == CHOOSE t \in TxById(txs, credit_transaction_id) : TRUE
          debit_tx  == CHOOSE t \in TxById(txs, debit_transaction_id) : TRUE
      IN  IF credit_tx.amount # debit_tx.amount
          THEN Http(400, "Amounts do not match")
          ELSE IF DateOnly(credit_tx.date) # DateOnly(debit_tx.date)
          THEN Http(400, "Dates do not match")
          ELSE Http(200, "OK")

MergeCheck(txs, credit_transaction_id, debit_transaction_id) ==
    IF TxById(txs, credit_transaction_id) = {}
    THEN Http(404, "Credit transaction not found")
    ELSE IF TxById(txs, debit_transaction_id) = {}
    THEN Http(404, "Debit transaction not found")
    ELSE
      LET credit_tx == CHOOSE t \in TxById(txs, credit_transaction_id) : TRUE
          debit_tx  == CHOOSE t \in TxById(txs, debit_transaction_id) : TRUE
      IN  IF credit_tx.amount # debit_tx.amount
          THEN Http(400, "Amounts do not match")
          ELSE IF DateOnly(credit_tx.date) # DateOnly(debit_tx.date)
          THEN Http(400, "Dates do not match")
          ELSE IF credit_tx.type # "credit"
          THEN Http(400, "Credit transaction must have type 'credit'")
          ELSE IF debit_tx.type # "debit"
          THEN Http(400, "Debit transaction must have type 'debit'")
          ELSE Http(200, "OK")

\* the slave merge_transfer inserts on the kept credit transaction
MergeNewSlaveOnCreditAccount(credit_tx, debit_tx) ==
    SlaveCreate(credit_tx.transactionId, credit_tx.accountId, debit_tx.amount,
                "debit", credit_tx.date)

MergeNewSlave(credit_tx, debit_tx) ==
    SlaveCreate(credit_tx.transactionId, debit_tx.accountId, debit_tx.amount,
                "debit", credit_tx.date)

\* the writes of merge_transfer, in order
MergeWritesKeepDebitSlaves(slv, credit_tx, debit_tx) ==
    LET existing_slaves == SlaveSeq(SlavesOf(slv, credit_tx.transactionId))
    IN  [i \in 1..Len(existing_slaves) |->
            [op |-> "delete_slave", slaveId |-> existing_slaves[i].slaveId]]
        \o
        << [op |-> "insert_slave", row |-> MergeNewSlave(credit_tx, debit_tx)],
           [op |-> "delete_transaction", transactionId |-> debit_tx.transactionId] >>

MergeWrites(slv, credit_tx, debit_tx) ==
    LET existing_slaves == SlaveSeq(SlavesOf(slv, credit_tx.transactionId))
    IN  [i \in 1..Len(existing_slaves) |->
            [op |-> "delete_slave", slaveId |-> existing_slaves[i].slaveId]]
        \o
        << [op |-> "insert_slave", row |-> MergeNewSlave(credit_tx, debit_tx)],
           [op |-> "delete_transaction", transactionId |-> debit_tx.transactionId],
           [op |-> "delete_slaves_of", masterId |-> debit_tx.transactionId] >>

merge_transfer(d, credit_transaction_id, debit_transaction_id, fault) ==
    LET check == MergeCheck(d.transactions, credit_transaction_id,
                            debit_transaction_id)
    IN  IF check.status # 200 THEN [d |-> d, http |-> check]
        ELSE
          LET credit_tx == CHOOSE t \in TxById(d.transactions, credit_transaction_id) : TRUE
              debit_tx  == CHOOSE t \in TxById(d.transactions, debit_transaction_id) : TRUE
              after == ExecWrites(d, MergeWrites(d.slaves, credit_tx, debit_tx), fault)
          IN  [d |-> after,
               http |-> IF after.raised THEN Http(500, "store error") ELSE check]

-----------------------------------------------------------------------------
(* split_slave                                                             *)

\* steps 3 and 4 of split_slave
SplitNewTransactionOnMasterAccount(transaction, slave_to_split) ==
    [accountId |-> transaction.accountId, amount |-> slave_to_split.amount,
     type |-> IF slave_to_split.type = "credit" THEN "credit" ELSE "debit",
     date |-> slave_to_split.date, description |-> <<"SPLIT">>]

SplitNewTransaction(transaction, slave_to_split) ==
    [accountId |-> slave_to_split.accountId, amount |-> slave_to_split.amount,
     type |-> IF slave_to_split.type = "credit" THEN "credit" ELSE "debit",
     date |-> slave_to_split.date, description |-> <<"SPLIT">>]

SplitNewSlave(transaction, slave_to_split) ==
    [accountId |-> transaction.accountId, amount |-> slave_to_split.amount,
     type |-> IF slave_to_split.type = "credit" THEN "debit" ELSE "credit",
     date |-> slave_to_split.date]

\* step 6: the debit and credit totals of {master, slave to split} against
\* those of {new transaction, new slave}
SplitBalanced(transaction, slave_to_split, new_transaction, new_slave) ==
    LET Of(row, type) == IF row.type = type THEN row.amount ELSE 0
    IN  /\ new_transaction.amount >= 0
        /\ Of(transaction, "debit") + Of(slave_to_split, "debit")
             = Of(new_transaction, "debit") + Of(new_slave, "debit")
        /\ Of(transaction, "credit") + Of(slave_to_split, "credit")
             = Of(new_transaction, "credit") + Of(new_slave, "credit")

\* the lookups and checks of split_slave: the HTTP status they raise, or 201
SplitCheckAnyAccount(txs, slv, transaction_id, slave_id) ==
    IF TxById(txs, transaction_id) = {} THEN Http(404, "Transaction not found")
    ELSE
      LET transaction == CHOOSE t \in TxById(txs, transaction_id) : TRUE
          found == {sl \in SlavesOf(slv, transaction_id) : sl.slaveId = slave_id}
      IN  IF found = {} THEN Http(404, "Slave not found")
          ELSE
            LET slave_to_split == CHOOSE sl \in found : TRUE
            IN  IF ~ SplitBalanced(transaction, slave_to_split,
                                   SplitNewTransaction(transaction, slave_to_split),
                                   SplitNewSlave(transaction, slave_to_split))
                THEN Http(400, "Balance validation failed")
                ELSE Http(201, "Created")

SplitCheck(txs, slv, transaction_id, slave_id) ==
    IF TxById(txs, transaction_id) = {} THEN Http(404, "Transaction not found")
    ELSE
      LET transaction == CHOOSE t \in TxById(txs, transaction_id) : TRUE
          found == {sl \in SlavesOf(slv, transaction_id) : sl.slaveId = slave_id}
      IN  IF found = {} THEN Http(404, "Slave not found")
          ELSE
            LET slave_to_split == CHOOSE sl \in found : TRUE
            IN  IF ~ AccountTable[slave_to_split.accountId].is_real
                THEN Http(400, "Can only split slaves pointing to real accounts")
                ELSE IF ~ SplitBalanced(transaction, slave_to_split,
                                        SplitNewTransaction(transaction, slave_to_split),
                                        SplitNewSlave(transaction, slave_to_split))
                THEN Http(400, "Balance validation failed")
                ELSE Http(201, "Created")

\* step 7 with the original slave deleted instead of moved to Unknown
SplitWritesDeleteSlave(d, transaction, slave_to_split) ==
    << [op |-> "insert_transaction",
        row |-> SplitNewTransaction(transaction, slave_to_split)],
       [op |-> "insert_slave",
        row |-> SplitNewSlave(transaction, slave_to_split)
                @@ [masterId |-> d.nextTxId]],
       [op |-> "delete_slave", slaveId |-> slave_to_split.slaveId] >>

\* step 7: the writes of split_slave, in order
SplitWrites(d, transaction, slave_to_split) ==
    << [op |-> "insert_transaction",
        row |-> SplitNewTransaction(transaction, slave_to_split)],
       [op |-> "insert_slave",
        row |-> SplitNewSlave(transaction, slave_to_split)
                @@ [masterId |-> d.nextTxId]],
       [op |-> "update_slave_account", slaveId |-> slave_to_split.slaveId,
        accountId |-> UnknownId] >>

split_slave(d, transaction_id, slave_id, fault) ==
    LET check == SplitCheck(d.transactions, d.slaves, transaction_id, slave_id)
    IN  IF check.status # 201 THEN [d |-> d, http |-> check]
        ELSE
          LET transaction == CHOOSE t \in TxById(d.transactions, transaction_id) : TRUE
              slave_to_split == CHOOSE sl \in d.slaves : sl.slaveId = slave_id
              after == ExecWrites(d, SplitWrites(d, transaction, slave_to_split), fault)
          IN  [d |-> after,
               http |-> IF after.raised THEN Http(500, "store error") ELSE check]

-----------------------------------------------------------------------------
(* Inputs of the processor specification                                   *)

None == [none |-> TRUE]

NoOp == [op |-> "none"]

Ties == [gen : BOOLEAN, m : BOOLEAN, s : BOOLEAN]

ProcAmounts == {-20, 0, 20, 24, 25, 30, 1000}

ProcDates ==
    {[y |-> 2024, m |-> 12, d |-> 15, t |-> 0],
     [y |-> 2025, m |-> 1,  d |-> 15, t |-> 0],
     [y |-> 2025, m |-> 2,  d |-> 1,  t |-> 1]}

\* the slave lists a TransactionWithSlaves can carry: none, one or two
\* slaves, on the Unknown sentinel or on another account
SlaveAccountViews ==
    { <<>>, <<"acc_unknown">>, <<"acc_food">>,
      <<"acc_unknown", "acc_unknown">>, <<"acc_unknown", "acc_food">> }

SlaveWithAccount(slaveId, masterId, accountId, amount, type, date) ==
    [slaveId |-> slaveId, masterId |-> masterId, accountId |-> accountId,
     amount |-> amount, type |-> type, date |-> date,
     Accounts |-> AccountTable[accountId]]

ProcTransactions ==
    { [transactionId |-> 1, description |-> "LOAN", type |-> type,
       amount |-> amount, date |-> date, accountId |-> "acc_bankA",
       TransactionsSlaves |->
           [i \in 1..Len(view) |->
               SlaveWithAccount(i, 1, view[i], amount, Opposite(type), date)]] :
      type \in {"credit", "debit"}, amount \in ProcAmounts,
      date \in ProcDates, view \in SlaveAccountViews }

SplitTargets == <<"acc_food", "acc_unknown", "acc_bankB", "acc_food">>

PercentageLists ==
    { <<10000>>, <<5000, 5000>>, <<7000, 3000>>, <<3333, 3333, 3334>>,
      <<2600, 2600, 2600, 2200>>, <<5000, 4000>>, <<>> }

SimpleSplitConfigOf(pcts, targets, filter) ==
    [transaction_filter |-> filter,
     splits |-> [i \in 1..Len(pcts) |->
                    [account_id |-> targets[i], percentage |-> pcts[i]]]]

SimpleSplitConfigs ==
    { SimpleSplitConfigOf(pcts, SplitTargets, "all") : pcts \in PercentageLists }

LoanConfigs ==
    [transaction_filter : {"all"},
     loan_amount : {1000, 50000},
     annual_rate : {0, 60},
     duration_months : {1, 2, 3},
     start_date : {[y |-> 2024, m |-> 12, d |-> 20], [y |-> 2025, m |-> 1, d |-> 1]},
     capital_account_id : {"acc_food"},
     interest_account_id : {"acc_unknown"}]

SalaryConfigs == {[transaction_filter |-> "all"]}

\* process() receives a config that validate_config accepted
ProcInputs ==
    { [processor_type |-> "simple_split", transaction |-> tx, config |-> c] :
        tx \in ProcTransactions,
        c \in {x \in SimpleSplitConfigs : SimpleSplitConfigValid(x)} }
    \cup
    { [processor_type |-> "loan", transaction |-> tx, config |-> c] :
        tx \in ProcTransactions, c \in {x \in LoanConfigs : LoanConfigValid(x)} }
    \cup
    { [processor_type |-> "salary", transaction |-> tx, config |-> c] :
        tx \in ProcTransactions, c \in SalaryConfigs }

-----------------------------------------------------------------------------
(* Processor specification: one direct call of process()                   *)

InitProc ==
    /\ transactions = {}
    /\ slaves = {}
    /\ rules = {}
    /\ nextTxId = 1
    /\ nextSlaveId = 1
    /\ lastOp = NoOp
    /\ pIn \in ProcInputs
    /\ pOut = None
    /\ rejected = {}

RunProcess(processor_type) ==
    /\ pOut = None
    /\ pIn.processor_type = processor_type
    /\ \E tie \in Ties :
          pOut' = [result |-> Process(processor_type, pIn.transaction, pIn.config, tie),
                   tie |-> tie]
    /\ UNCHANGED <<transactions, slaves, rules, nextTxId, nextSlaveId, lastOp, pIn, rejected>>

RunSimpleSplit == RunProcess("simple_split")

RunLoan == RunProcess("loan")

RunSalary == RunProcess("salary")

NextProc == RunSimpleSplit \/ RunLoan \/ RunSalary

SpecProc == InitProc /\ [][NextProc]_vars

SignedMaster(transaction) ==
    IF transaction.type = "debit" THEN -transaction.amount ELSE transaction.amount

SignedSlaves(new_slaves) ==
    -(SumAmounts(SelectType(new_slaves, "credit"))
      - SumAmounts(SelectType(new_slaves, "debit")))

C5_SplitConservation ==
    (pOut # None /\ pOut.result.success /\ pIn.processor_type = "simple_split")
        => SumAmounts(pOut.result.slaves) = pIn.transaction.amount

\* a three-way split of an amount whose shares need rounding succeeded
C5_Witness ==
    /\ pOut # None
    /\ pOut.result.success
    /\ pIn.processor_type = "simple_split"
    /\ Len(pIn.config.splits) >= 3
    /\ pIn.transaction.amount = 20
    /\ \E i \in 1..Len(pOut.result.slaves) :
          pOut.result.slaves[i].amount * 10000
              # pIn.transaction.amount * pIn.config.splits[i].percentage

-----------------------------------------------------------------------------
(* Ledger specification: the imported ledger, the rule table and the       *)
(* handlers process_matching, merge_transfer and split_slave               *)

NumImported == 2

MaxTxId == 4

MaxSlaveId == 8

MaxFault == 3

LedgerDay == [y |-> 2025, m |-> 1, d |-> 15, t |-> 0]

\* the amount and date of the second imported master: the first master's, or
\* another amount, or another time of the same day, or another day
LedgerVariants ==
    { [amount |-> 20, date |-> LedgerDay],
      [amount |-> 24, date |-> LedgerDay],
      [amount |-> 30, date |-> LedgerDay],
      [amount |-> 20, date |-> [y |-> 2025, m |-> 1, d |-> 15, t |-> 1]],
      [amount |-> 20, date |-> [y |-> 2025, m |-> 2, d |-> 1, t |-> 0]] }

LedgerDescriptions == << <<"AMAZON", "PRIME">>, <<"NETFLIX">>, <<"AMAZON">> >>

LedgerAccounts == <<"acc_bankA", "acc_bankB">>

\* the master row number i of an import: the first two take any type and the
\* second any variant of amount and date; further masters are fixed debits
ImportedMasters(i) ==
    { [transactionId |-> i,
       description |-> LedgerDescriptions[((i - 1) % 3) + 1],
       date |-> v.date, type |-> type, amount |-> v.amount,
       accountId |-> LedgerAccounts[((i - 1) % 2) + 1]] :
      type \in (IF i <= 2 THEN {"credit", "debit"} ELSE {"debit"}),
      v \in (IF i = 2 THEN LedgerVariants
             ELSE {[amount |-> 20, date |-> LedgerDay]}) }

\* migrations.py: the slave an import creates for a master
ImportedSlave(tx) ==
    [slaveId |-> tx.transactionId, masterId |-> tx.transactionId,
     accountId |-> UnknownId, amount |-> tx.amount,
     type |-> IF tx.type = "credit" THEN "debit" ELSE "credit", date |-> tx.date]

Cond(match_type, match_value) ==
    [match_type |-> match_type, match_value |-> match_value]

Group(operator, conditions) == [operator |-> operator, conditions |-> conditions]

Rule(ruleId, priority, enabled, account_ids, processor_type, processor_config, condition_groups) ==
    [ruleId |-> ruleId, priority |-> priority, enabled |-> enabled,
     account_ids |-> account_ids, processor_type |-> processor_type,
     processor_config |-> processor_config, condition_groups |-> condition_groups]

LoanConfigOf(start_month, filter) ==
    [transaction_filter |-> filter, loan_amount |-> 200, annual_rate |-> 60,
     duration_months |-> 1, start_date |-> [y |-> 2025, m |-> start_month, d |-> 1],
     capital_account_id |-> "acc_food", interest_account_id |-> "acc_unknown"]

AnyAmount == <<Group("AND", <<Cond("amount_gte", 0)>>)>>

\* first match on a rule that leaves a single Unknown slave
RulesA ==
    { Rule(1, 10, TRUE, {}, "simple_split",
           SimpleSplitConfigOf(<<10000>>, <<"acc_unknown">>, "all"),
           <<Group("AND", <<Cond("contains", <<"AMAZON">>)>>)>>),
      Rule(2, 5, TRUE, {}, "simple_split",
           SimpleSplitConfigOf(<<5000, 5000>>, <<"acc_food", "acc_bankB">>, "all"),
           <<Group("OR", <<Cond("contains", <<"PRIME">>),
                           Cond("exact", <<"NETFLIX">>)>>)>>) }

\* a loan rule for debits, then a three-way split
RulesB ==
    { Rule(1, 10, TRUE, {}, "loan", LoanConfigOf(1, "debit"), AnyAmount),
      Rule(2, 5, TRUE, {}, "simple_split",
           SimpleSplitConfigOf(<<3333, 3333, 3334>>,
                               <<"acc_food", "acc_bankA", "acc_food">>, "all"),
           <<Group("AND", <<>>), Group("AND", <<Cond("amount_gt", 0),
                                                Cond("amount_lte", 30)>>)>>) }

\* rules that fail (loan not started, invalid config, unregistered
\* processor), a disabled rule and an account filter
RulesC ==
    { Rule(1, 10, TRUE, {}, "simple_split",
           SimpleSplitConfigOf(<<5000, 4000>>, <<"acc_food", "acc_food">>, "all"),
           AnyAmount),
      Rule(2, 8, TRUE, {}, "salary", [transaction_filter |-> "all"], AnyAmount),
      Rule(3, 7, TRUE, {}, "loan", LoanConfigOf(2, "all"), AnyAmount),
      Rule(4, 5, TRUE, {"acc_bankB"}, "simple_split",
           SimpleSplitConfigOf(<<7000, 3000>>, <<"acc_bankA", "acc_food">>, "all"),
           <<Group("AND", <<Cond("starts_with", <<"NETFLIX">>)>>)>>),
      Rule(5, 20, FALSE, {}, "simple_split",
           SimpleSplitConfigOf(<<10000>>, <<"acc_food">>, "all"), AnyAmount) }

\* a rule whose condition cannot be evaluated, between two that can
RulesD ==
    { Rule(1, 10, TRUE, {}, "simple_split",
           SimpleSplitConfigOf(<<10000>>, <<"acc_food">>, "credit"), AnyAmount),
      Rule(2, 5, TRUE, {}, "simple_split",
           SimpleSplitConfigOf(<<10000>>, <<"acc_food">>, "all"),
           <<Group("AND", <<Cond("fuzzy", <<"AMAZON">>)>>)>>),
      Rule(3, 1, TRUE, {}, "simple_split",
           SimpleSplitConfigOf(<<10000>>, <<"acc_food">>, "all"), AnyAmount) }

\* configs that validate_config refuses (no split, a percentage of 0, a
\* percentage above 100, a sum above 100), before a rule that is valid
RulesE ==
    { Rule(1, 10, TRUE, {}, "simple_split",
           SimpleSplitConfigOf(<<>>, <<>>, "all"), AnyAmount),
      Rule(2, 9, TRUE, {}, "simple_split",
           SimpleSplitConfigOf(<<0, 10000>>, <<"acc_food", "acc_food">>, "all"),
           AnyAmount),
      Rule(3, 8, TRUE, {}, "simple_split",
           SimpleSplitConfigOf(<<15000, -5000>>, <<"acc_food", "acc_food">>, "all"),
           AnyAmount),
      Rule(4, 7, TRUE, {}, "simple_split",
           SimpleSplitConfigOf(<<6000, 6000>>, <<"acc_food", "acc_food">>, "all"),
           AnyAmount),
      Rule(5, 1, TRUE, {}, "simple_split",
           SimpleSplitConfigOf(<<4000, 6000>>, <<"acc_food", "acc_food">>, "all"),
           <<Group("AND", <<Cond("contains", <<"AMAZON">>)>>)>>) }

RuleTables == {RulesA, RulesB, RulesC, RulesD, RulesE, {}}

Init ==
    /\ \E imported \in [1..NumImported -> UNION {ImportedMasters(i) : i \in 1..NumImported}] :
          /\ \A i \in 1..NumImported : imported[i] \in ImportedMasters(i)
          /\ transactions = {imported[i] : i \in 1..NumImported}
          /\ slaves = {ImportedSlave(imported[i]) : i \in 1..NumImported}
    /\ rules \in RuleTables
    /\ nextTxId = NumImported + 1
    /\ nextSlaveId = NumImported + 1
    /\ lastOp = NoOp
    /\ pIn = None
    /\ pOut = None
    /\ rejected = {}

WithinBounds(d) == d.nextTxId <= MaxTxId + 1 /\ d.nextSlaveId <= MaxSlaveId + 1

Commit(d) ==
    /\ transactions' = d.transactions
    /\ slaves' = d.slaves
    /\ nextTxId' = d.nextTxId
    /\ nextSlaveId' = d.nextSlaveId
    /\ UNCHANGED <<rules, pIn, pOut, rejected>>

CurrentDb == Db(transactions, slaves, nextTxId, nextSlaveId)

\* the ids a request can name: the rows of the table and one absent id
TxIdInputs == {t.transactionId : t \in transactions} \cup {nextTxId}

SlaveIdInputs == {sl.slaveId : sl \in slaves} \cup {nextSlaveId}

\* in the ledger every rounding tie of one request goes the same way
LedgerTies == {tie \in Ties : tie.m = tie.gen /\ tie.s = tie.gen}

\* what a handler read when it was called
Before == [transactions |-> transactions, slaves |-> slaves,
           nextTxId |-> nextTxId, nextSlaveId |-> nextSlaveId]

\* a request refused by one of the handler's own checks: lastOp keeps its
\* status and detail; of any other request it keeps the arguments too
Refused(http) == http.status \in {400, 404}

ProcessMatching(fault) ==
    \E tie \in LedgerTies :
        \E st \in {process_matching(CurrentDb, rules, tie, fault)} :
            /\ WithinBounds(st.d)
            /\ Commit(st.d)
            /\ lastOp' = [op |-> "process_matching", status |-> st.status,
                          processed |-> st.processed,
                          categorized |-> st.categorized, failed |-> st.failed,
                          details |-> st.details, applies |-> st.applies,
                          before |-> Before]

Merge(fault) ==
    \E credit_transaction_id \in TxIdInputs, debit_transaction_id \in TxIdInputs :
        LET r == merge_transfer(CurrentDb, credit_transaction_id,
                                debit_transaction_id, fault)
        IN  /\ WithinBounds(r.d)
            /\ Commit(r.d)
            /\ lastOp' = IF Refused(r.http)
                         THEN [op |-> "merge", status |-> r.http.status,
                               detail |-> r.http.detail, before |-> Before]
                         ELSE [op |-> "merge", status |-> r.http.status,
                               detail |-> r.http.detail,
                               credit_transaction_id |-> credit_transaction_id,
                               debit_transaction_id |-> debit_transaction_id,
                               new_slave_id |-> nextSlaveId,
                               before |-> Before]

\* a split of the slave that the merge just before it created also keeps
\* what that merge read
Split(fault) ==
    \E transaction_id \in TxIdInputs, slave_id \in SlaveIdInputs :
        LET r == split_slave(CurrentDb, transaction_id, slave_id, fault)
            after_merge == /\ lastOp.op = "merge"
                           /\ lastOp.status = 200
                           /\ lastOp.credit_transaction_id = transaction_id
                           /\ lastOp.new_slave_id = slave_id
        IN  /\ WithinBounds(r.d)
            /\ Commit(r.d)
            /\ lastOp' = IF Refused(r.http)
                         THEN [op |-> "split", status |-> r.http.status,
                               detail |-> r.http.detail, before |-> Before]
                         ELSE [op |-> "split", status |-> r.http.status,
                               detail |-> r.http.detail,
                               transaction_id |-> transaction_id,
                               slave_id |-> slave_id,
                               created_transaction_id |-> nextTxId,
                               created_slave_id |-> nextSlaveId,
                               merge |-> IF after_merge THEN lastOp ELSE None,
                               before |-> Before]

Next == ProcessMatching(0) \/ Merge(0) \/ Split(0)

Spec == Init /\ [][Next]_vars

\* the same ledger when one write of a batch run may raise
NextFault ==
    \/ \E fault \in 1..MaxFault : ProcessMatching(fault)
    \/ Next

SpecFault == Init /\ [][NextFault]_vars

-----------------------------------------------------------------------------
(* Matching specification: one direct call of find_matching_transactions   *)
(* on a store of three masters                                             *)

MatchMasters ==
    { [transactionId |-> 1, description |-> <<"AMAZON", "PRIME">>,
       date |-> LedgerDay, type |-> "credit", amount |-> 20,
       accountId |-> "acc_bankA"],
      [transactionId |-> 2, description |-> <<"NETFLIX">>,
       date |-> LedgerDay, type |-> "debit", amount |-> 30,
       accountId |-> "acc_bankB"],
      [transactionId |-> 3, description |-> <<"AMAZON">>,
       date |-> LedgerDay, type |-> "debit", amount |-> 20,
       accountId |-> "acc_bankA"] }

\* the accounts of the stored slaves of a master
MatchSlaveViews ==
    { <<"acc_unknown">>, <<"acc_food">>, <<"acc_unknown", "acc_food">>,
      <<"acc_unknown", "acc_unknown">> }

\* the stored slaves of master tx under a view; slave ids are 10 * master + i
MatchSlaves(tx, view) ==
    { [slaveId |-> 10 * tx.transactionId + i, masterId |-> tx.transactionId,
       accountId |-> view[i], amount |-> tx.amount, type |-> Opposite(tx.type),
       date |-> tx.date] : i \in 1..Len(view) }

MatchConditionGroups ==
    { <<Group("AND", <<Cond("contains", <<"AMAZON">>), Cond("amount_lte", 20)>>)>>,
      <<Group("OR", <<Cond("contains", <<"PRIME">>), Cond("exact", <<"NETFLIX">>),
                      Cond("amount_eq", 20)>>)>>,
      <<Group("AND", <<Cond("contains", <<"AMAZON">>), Cond("amount_lt", 30)>>),
        Group("OR", <<Cond("starts_with", <<"AMAZON">>), Cond("amount_gte", 30)>>),
        Group("AND", <<Cond("amount_gt", 0)>>)>>,
      <<Group("AND", <<>>),
        Group("OR", <<Cond("starts_with", <<"PRIME">>), Cond("amount_gt", 20)>>)>>,
      <<Group("OR", <<>>)>>,
      <<>>,
      <<Group("OR", <<Cond("amount_gt", 0), Cond("fuzzy", <<"AMAZON">>)>>)>> }

MatchRules ==
    { Rule(1, 10, TRUE, account_ids, "simple_split",
           SimpleSplitConfigOf(<<10000>>, <<"acc_food">>, filter), groups) :
      account_ids \in {{}, {"acc_bankA"}},
      filter \in {"all", "debit", "credit"},
      groups \in MatchConditionGroups }

PageSizes == {1, 2, page_size_default}

InitMatch ==
    /\ transactions = MatchMasters
    /\ \E view \in [MatchMasters -> MatchSlaveViews] :
          slaves = UNION {MatchSlaves(tx, view[tx]) : tx \in MatchMasters}
    /\ \E rule \in MatchRules, page_size \in PageSizes :
          /\ rules = {rule}
          /\ pIn = [rule |-> rule, page_size |-> page_size]
    /\ nextTxId = 4
    /\ nextSlaveId = 40
    /\ lastOp = NoOp
    /\ pOut = None
    /\ rejected = {}

\* the call; a condition that cannot be evaluated raises ValueError
FindMatching ==
    /\ pOut = None
    /\ pOut' = IF FindRaises(pIn.rule) THEN [raised |-> TRUE, matched |-> <<>>]
               ELSE [raised |-> FALSE,
                     matched |-> find_matching_transactions(
                                     transactions, slaves, pIn.rule, pIn.page_size)]
    /\ UNCHANGED <<transactions, slaves, rules, nextTxId, nextSlaveId, lastOp, pIn, rejected>>

NextMatch == FindMatching

SpecMatch == InitMatch /\ [][NextMatch]_vars

-----------------------------------------------------------------------------
(* Transfer candidates and rejected pairs: the handlers of transfers.py    *)
(* over a store of three masters                                           *)

\* a transaction id is a UUID, kept here as the value of the first hex digit
\* in which the ids of the store differ; in a request path it is a text, in
\* lower case as str(UUID) writes it or in upper case
IdText(id, upper) == [id |-> id, upper |-> upper]

\* the code point of that hex digit in the text
CharCode(text) ==
    IF text.id < 10 THEN 48 + text.id
    ELSE IF text.upper THEN 65 + (text.id - 10) ELSE 97 + (text.id - 10)

\* min() and max() of two str: the order of the code points
StrMin(x, y) == IF CharCode(y) < CharCode(x) THEN y ELSE x

StrMax(x, y) == IF CharCode(y) > CharCode(x) THEN y ELSE x

\* the uuid column reads a text in either case
ParseUuid(text) == text.id

\* min() and max() of two UUID: the order of their values
UuidMin(a, b) == IF b < a THEN b ELSE a

UuidMax(a, b) == IF b > a THEN b ELSE a

RejectedRow(pair_id, transaction_id_1, transaction_id_2) ==
    [pair_id |-> pair_id, transaction_id_1 |-> transaction_id_1,
     transaction_id_2 |-> transaction_id_2]

\* the pair_id the store gives to a new row: one that no row has
NewPairId(rej) ==
    CHOOSE n \in 1..(Cardinality(rej) + 1) :
        /\ \A r \in rej : r.pair_id # n
        /\ \A m \in 1..(n - 1) : \E r \in rej : r.pair_id = m

\* the rows .eq("transaction_id_1", a).eq("transaction_id_2", b) selects
RejectedRows(rej, a, b) ==
    {r \in rej : r.transaction_id_1 = a /\ r.transaction_id_2 = b}

\* POST /transfers/candidates/reject
reject_transfer_candidate(rej, credit_transaction_id, debit_transaction_id) ==
    LET tx_id_1 == UuidMin(credit_transaction_id, debit_transaction_id)
        tx_id_2 == UuidMax(credit_transaction_id, debit_transaction_id)
    IN  IF RejectedRows(rej, tx_id_1, tx_id_2) # {}
        THEN [http |-> Http(409, "already_rejected"), rejected |-> rej]
        ELSE [http |-> Http(201, "created"),
              rejected |-> rej \cup {RejectedRow(NewPairId(rej), tx_id_1, tx_id_2)}]

\* DELETE /transfers/candidates/reject/{tx1_id}/{tx2_id}
unreject_transfer_candidate(rej, tx1_id, tx2_id) ==
    LET ordered_tx1 == StrMin(tx1_id, tx2_id)
        ordered_tx2 == StrMax(tx1_id, tx2_id)
        deleted == RejectedRows(rej, ParseUuid(ordered_tx1), ParseUuid(ordered_tx2))
    IN  IF deleted = {}
        THEN [http |-> Http(404, "not_found"), rejected |-> rej]
        ELSE [http |-> Http(204, "no_content"), rejected |-> rej \ deleted]

\* a "clean" transaction as every caller of the candidate query describes
\* it: no slave pointing to a real account
CleanNoRealSlave(slv, tx) ==
    \A sl \in SlavesOf(slv, tx.transactionId) : ~AccountTable[sl.accountId].is_real

\* a "clean" transaction: exactly one slave, pointing to a non-real account
Clean(slv, tx) ==
    /\ Cardinality(SlavesOf(slv, tx.transactionId)) = 1
    /\ \A sl \in SlavesOf(slv, tx.transactionId) : ~AccountTable[sl.accountId].is_real

\* the key the candidate query groups by: the day and the amount
GroupKey(tx) == <<DateOnly(tx.date), tx.amount>>

\* the pair is present in RejectedTransferPairs
PairRejected(rej, a, b) == RejectedRows(rej, UuidMin(a, b), UuidMax(a, b)) # {}

\* the candidate query: within a group every credit with every debit, but
\* for the rejected pairs
TransferPairs(txs, slv, rej) ==
    { p \in txs \X txs :
        /\ p[1].type = "credit"
        /\ p[2].type = "debit"
        /\ Clean(slv, p[1])
        /\ Clean(slv, p[2])
        /\ GroupKey(p[1]) = GroupKey(p[2])
        /\ ~PairRejected(rej, p[1].transactionId, p[2].transactionId) }

\* the rows of the query: which transaction of a pair comes first is not
\* fixed
RpcRows(pairs, flipped) ==
    { IF p \in flipped THEN [tx_1 |-> p[2], tx_2 |-> p[1]]
      ELSE [tx_1 |-> p[1], tx_2 |-> p[2]] : p \in pairs }

\* one row of the query as the TransferCandidate the handler returns
TransferCandidate(row) ==
    LET credit_tx == IF row.tx_1.type = "credit" THEN row.tx_1 ELSE row.tx_2
        debit_tx == IF row.tx_1.type = "credit" THEN row.tx_2 ELSE row.tx_1
    IN  [credit_transaction |-> credit_tx, debit_transaction |-> debit_tx,
         amount |-> credit_tx.amount, date |-> DateOnly(credit_tx.date),
         match_confidence |-> 1]

\* GET /transfers/candidates
get_transfer_candidates(rows) == {TransferCandidate(row) : row \in rows}

\* the third master: a second debit of the pair's day and amount, or of
\* another amount, or of another time of the day, or of another day, or a
\* second credit
TransferVariants ==
    { [type |-> "debit", amount |-> 20, date |-> LedgerDay],
      [type |-> "debit", amount |-> 30, date |-> LedgerDay],
      [type |-> "debit", amount |-> 20, date |-> [y |-> 2025, m |-> 1, d |-> 15, t |-> 1]],
      [type |-> "debit", amount |-> 20, date |-> [y |-> 2025, m |-> 2, d |-> 1, t |-> 0]],
      [type |-> "credit", amount |-> 20, date |-> LedgerDay] }

\* masters 9 and a are a credit and a debit of the same day and amount
TransferMasters(v) ==
    { [transactionId |-> 9, description |-> <<"AMAZON">>,
       date |-> LedgerDay, type |-> "credit", amount |-> 20,
       accountId |-> "acc_bankA"],
      [transactionId |-> 10, description |-> <<"NETFLIX">>,
       date |-> LedgerDay, type |-> "debit", amount |-> 20,
       accountId |-> "acc_bankB"],
      [transactionId |-> 11, description |-> <<"AMAZON">>,
       date |-> v.date, type |-> v.type, amount |-> v.amount,
       accountId |-> "acc_bankB"] }

\* the accounts of the stored slaves of masters 9 and a: the Unknown slave of
\* an import, a category, the real account of a merged transfer, two
\* categories, or none; master b keeps the slave of its import
TransferSlaveViews ==
    { <<"acc_unknown">>, <<"acc_food">>, <<"acc_bankA">>,
      <<"acc_food", "acc_food">>, <<>> }

InitTransfers ==
    /\ \E v \in TransferVariants :
          /\ transactions = TransferMasters(v)
          /\ \E view \in [TransferMasters(v) -> TransferSlaveViews] :
                /\ \A tx \in TransferMasters(v) :
                      tx.transactionId = 11 => view[tx] = <<"acc_unknown">>
                /\ slaves = UNION {MatchSlaves(tx, view[tx]) : tx \in TransferMasters(v)}
    /\ rules = {}
    /\ nextTxId = 12
    /\ nextSlaveId = 120
    /\ lastOp = NoOp
    /\ pIn = None
    /\ pOut = None
    /\ rejected = {}

GetCandidates ==
    \E pairs \in {TransferPairs(transactions, slaves, rejected)} :
        \E flipped \in SUBSET pairs :
            /\ lastOp' = [op |-> "candidates", status |-> 200,
                          candidates |-> get_transfer_candidates(RpcRows(pairs, flipped))]
            /\ UNCHANGED <<transactions, slaves, rules, nextTxId, nextSlaveId,
                           pIn, pOut, rejected>>

\* the ids a request names: two transactions of the store
Reject ==
    \E a \in TxIdInputs \ {nextTxId}, b \in TxIdInputs \ {nextTxId} :
        /\ a # b
        /\ \E r \in {reject_transfer_candidate(rejected, a, b)} :
              /\ rejected' = r.rejected
              /\ lastOp' = [op |-> "reject", status |-> r.http.status,
                            credit_transaction_id |-> a,
                            debit_transaction_id |-> b, before |-> rejected]
        /\ UNCHANGED <<transactions, slaves, rules, nextTxId, nextSlaveId, pIn, pOut>>

Unreject ==
    \E a \in TxIdInputs \ {nextTxId}, b \in TxIdInputs \ {nextTxId} :
        /\ a # b
        /\ \E upper_a \in BOOLEAN, upper_b \in BOOLEAN :
              \E r \in {unreject_transfer_candidate(rejected, IdText(a, upper_a),
                                                    IdText(b, upper_b))} :
                  /\ rejected' = r.rejected
                  /\ lastOp' = [op |-> "unreject", status |-> r.http.status,
                                tx1_id |-> IdText(a, upper_a),
                                tx2_id |-> IdText(b, upper_b), before |-> rejected]
        /\ UNCHANGED <<transactions, slaves, rules, nextTxId, nextSlaveId, pIn, pOut>>

NextTransfers == GetCandidates \/ Reject \/ Unreject

SpecTransfers == InitTransfers /\ [][NextTransfers]_vars

-----------------------------------------------------------------------------
(* Loan schedule specification: one direct call of                         *)
(* calculate_payment_breakdown                                             *)

\* loans of 1.00, 3.33, 50.00 and 1234.56 at 0, 60 or 100 percent a year
ScheduleConfigs ==
    [transaction_filter : {"all"},
     loan_amount : {1000, 3330, 50000, 1234560},
     annual_rate : {0, 60, 100},
     duration_months : {1, 2, 3},
     start_date : {[y |-> 2025, m |-> 1, d |-> 1]},
     capital_account_id : {"acc_food"},
     interest_account_id : {"acc_unknown"}]

\* a validated config and a payment number up to one past the term
ScheduleInputs ==
    { [payment_number |-> k, config |-> c, tie |-> tie] :
        c \in {x \in ScheduleConfigs : LoanConfigValid(x)},
        k \in 1..4, tie \in LedgerTies }

InitSchedule ==
    /\ transactions = {}
    /\ slaves = {}
    /\ rules = {}
    /\ nextTxId = 1
    /\ nextSlaveId = 1
    /\ lastOp = NoOp
    /\ pIn \in {x \in ScheduleInputs : x.payment_number <= x.config.duration_months + 1}
    /\ pOut = None
    /\ rejected = {}

Breakdown ==
    /\ pOut = None
    /\ pOut' = [breakdown |-> calculate_payment_breakdown(
                                  pIn.payment_number, pIn.config, pIn.tie),
                monthly_payment |-> calculate_monthly_payment(
                                        pIn.config.loan_amount, pIn.config.annual_rate,
                                        pIn.config.duration_months)]
    /\ UNCHANGED <<transactions, slaves, rules, nextTxId, nextSlaveId, lastOp, pIn, rejected>>

NextSchedule == Breakdown

SpecSchedule == InitSchedule /\ [][NextSchedule]_vars

-----------------------------------------------------------------------------
(* Validator specification: one direct call of _validate_transaction       *)

\* what the net total of the new slaves is off the master amount by, in
\* mills: nothing, half a cent, nearly a cent, a little over a cent, two
\* cents
BalanceGaps == {-20, -11, -9, -5, -4, 0, 4, 5, 9, 11, 20}

\* a master and one new slave of the opposite type whose amount is off the
\* master amount by a gap
ValidateInputs ==
    { [transaction |-> tx,
       new_slaves |-> << SlaveCreate(tx.transactionId, "acc_food", tx.amount + gap,
                                     Opposite(tx.type), tx.date) >>,
       tie |-> tie] :
        tx \in {t \in ProcTransactions : t.date = LedgerDay /\ t.amount >= 20},
        gap \in BalanceGaps, tie \in Ties }

InitValidate ==
    /\ transactions = {}
    /\ slaves = {}
    /\ rules = {}
    /\ nextTxId = 1
    /\ nextSlaveId = 1
    /\ lastOp = NoOp
    /\ pIn \in ValidateInputs
    /\ pOut = None
    /\ rejected = {}

\* the call: "ok" when it returns, the ValueError it raises otherwise
Validate ==
    /\ pOut = None
    /\ pOut' = [check |-> ValidateTransaction(pIn.transaction, pIn.new_slaves, pIn.tie)]
    /\ UNCHANGED <<transactions, slaves, rules, nextTxId, nextSlaveId, lastOp, pIn, rejected>>

NextValidate == Validate

SpecValidate == InitValidate /\ [][NextValidate]_vars

-----------------------------------------------------------------------------
(* The pagination loops of _match_and_conditions and _match_or_conditions, *)
(* one page at a time, over the store of three masters: pOut is the state  *)
(* of the loop                                                             *)

\* rules of one condition group, not empty, that can be evaluated, with
\* no account filter and no transaction-type filter
PageRules ==
    { rule \in MatchRules :
        /\ Len(rule.condition_groups) = 1
        /\ rule.condition_groups[1].conditions # <<>>
        /\ ~ FindRaises(rule)
        /\ rule.account_ids = {}
        /\ rule.processor_config.transaction_filter = "all" }

\* the stored slaves of the three masters; the second master, which the
\* AND group does not select, keeps its imported slave
PageSlaveViews ==
    { view \in [MatchMasters -> MatchSlaveViews] :
        \A tx \in MatchMasters :
            tx.transactionId = 2 => view[tx] = <<"acc_unknown">> }

\* the rows the query of an AND group selects: every condition is chained
AndQueryRows(txs, slv, rule, conditions) ==
    TxSeq({row \in BaseQuery(txs, slv, rule) :
              \A i \in 1..Len(conditions) : ConditionHolds(row, conditions[i])})

\* the rows the query of one condition of an OR group selects
OrQueryRows(txs, slv, rule, condition) ==
    TxSeq({row \in BaseQuery(txs, slv, rule) : ConditionHolds(row, condition)})

\* all_matched and offset before the first page; `condition` is the position
\* of the for loop of _match_or_conditions, `pages` counts the queries
LoopStart ==
    [condition |-> 1, offset |-> 0, all_matched |-> <<>>, pages |-> 0,
     brk |-> FALSE, done |-> FALSE]

\* the body of `while True` in which the loop is left when the page holds
\* fewer rows than page_size after the single-slave filter
PageStepStopOnFiltered(st, rows, page_size, by_id) ==
    LET data     == Range(rows, st.offset, page_size)
        filtered == _filter_single_slave(data)
    IN  IF data = <<>>
        THEN [st EXCEPT !.pages = @ + 1, !.brk = TRUE]
        ELSE [st EXCEPT
                !.pages = @ + 1,
                !.all_matched = IF by_id THEN UnionById(@, filtered)
                                ELSE @ \o filtered,
                !.offset = IF Len(filtered) < page_size THEN @ ELSE @ + page_size,
                !.brk = Len(filtered) < page_size]

\* the body of `while True`: read the page at the offset; leave the loop on
\* an empty page; keep the rows with one embedded slave (by id in the OR
\* loop); leave the loop when the page is not full, else move the offset
PageStep(st, rows, page_size, by_id) ==
    LET data     == Range(rows, st.offset, page_size)
        filtered == _filter_single_slave(data)
    IN  IF data = <<>>
        THEN [st EXCEPT !.pages = @ + 1, !.brk = TRUE]
        ELSE [st EXCEPT
                !.pages = @ + 1,
                !.all_matched = IF by_id THEN UnionById(@, filtered)
                                ELSE @ \o filtered,
                !.offset = IF Len(data) < page_size THEN @ ELSE @ + page_size,
                !.brk = Len(data) < page_size]

InitPages ==
    /\ transactions = MatchMasters
    /\ \E view \in PageSlaveViews :
          slaves = UNION {MatchSlaves(tx, view[tx]) : tx \in MatchMasters}
    /\ \E rule \in PageRules, page_size \in PageSizes :
          /\ rules = {rule}
          /\ pIn = [rule |-> rule, page_size |-> page_size]
    /\ nextTxId = 4
    /\ nextSlaveId = 40
    /\ lastOp = NoOp
    /\ pOut = LoopStart
    /\ rejected = {}

\* one page of _match_and_conditions; `return all_matched` after the break
AndPage ==
    /\ ~ pOut.done
    /\ pIn.rule.condition_groups[1].operator = "AND"
    /\ \E st \in {PageStep(pOut,
                           AndQueryRows(transactions, slaves, pIn.rule,
                                        pIn.rule.condition_groups[1].conditions),
                           pIn.page_size, FALSE)} :
          pOut' = [st EXCEPT !.done = st.brk]
    /\ UNCHANGED <<transactions, slaves, rules, nextTxId, nextSlaveId, lastOp, pIn, rejected>>

\* one page of _match_or_conditions; a break goes to the next condition with
\* offset 0, and to `return` after the last one
OrPage ==
    /\ ~ pOut.done
    /\ pIn.rule.condition_groups[1].operator # "AND"
    /\ \E st \in {PageStep(pOut,
                           OrQueryRows(transactions, slaves, pIn.rule,
                                       pIn.rule.condition_groups[1].conditions[pOut.condition]),
                           pIn.page_size, TRUE)} :
          pOut' = IF ~ st.brk THEN st
                  ELSE IF st.condition = Len(pIn.rule.condition_groups[1].conditions)
                  THEN [st EXCEPT !.done = TRUE]
                  ELSE [st EXCEPT !.condition = @ + 1, !.offset = 0, !.brk = FALSE]
    /\ UNCHANGED <<transactions, slaves, rules, nextTxId, nextSlaveId, lastOp, pIn, rejected>>

NextPages == AndPage \/ OrPage

SpecPages == InitPages /\ [][NextPages]_vars

\* the handler runs until it returns: a page that can be read is read
SpecPagesLive == InitPages /\ [][NextPages]_vars /\ WF_vars(NextPages)

TypeOK ==
    /\ \A t \in transactions : t.transactionId < nextTxId
    /\ \A sl \in slaves : sl.slaveId < nextSlaveId

-----------------------------------------------------------------------------
(* Properties of the ledger                                                *)

\* the set of the elements of a sequence
SeqRange(s) == {s[i] : i \in 1..Len(s)}

\* a stored slave without its synthetic id
Draft(sl) == SlaveCreate(sl.masterId, sl.accountId, sl.amount, sl.type, sl.date)

\* the stored rows are the drafts, one row for each draft
SameRows(stored, drafts) ==
    /\ Cardinality(stored) = Len(drafts)
    /\ \A sl \in stored : \E i \in 1..Len(drafts) : drafts[i] = Draft(sl)
    /\ \A i \in 1..Len(drafts) :
          Cardinality({sl \in stored : Draft(sl) = drafts[i]})
            = Cardinality({j \in 1..Len(drafts) : drafts[j] = drafts[i]})

RuleOf(ruleId) == CHOOSE r \in rules : r.ruleId = ruleId

TxIn(b, id) == CHOOSE t \in b.transactions : t.transactionId = id

OneUnknownSlave(slv, id) ==
    \E sl \in slv : SlavesOf(slv, id) = {sl} /\ sl.accountId = UnknownId

\* the total posted to an account with a type, by masters and by slaves
Posted(txs, slv, acc, type) ==
    SumAmounts(TxSeq({t \in txs : t.accountId = acc /\ t.type = type}))
    + SumAmounts(SlaveSeq({sl \in slv : sl.accountId = acc /\ sl.type = type}))

\* the order and the skipping of one run of process_matching: only enabled
\* rules are applied, in descending priority; once a rule has succeeded on a
\* transaction no later rule is applied to it; a transaction has at most one
\* detail entry
RunOrder(a, details) ==
    /\ \A i \in 1..Len(a) : RuleOf(a[i].ruleId).enabled
    /\ \A i, j \in 1..Len(a) :
          (i < j) =>
              /\ RuleOf(a[i].ruleId).priority >= RuleOf(a[j].ruleId).priority
              /\ a[i].success => a[j].transactionId # a[i].transactionId
    /\ \A i, j \in 1..Len(details) :
          (i # j) => details[i].transaction_id # details[j].transaction_id

\* an enabled rule of lower priority than the one of entry e matched the
\* transaction of e as well when the run started
LowerRuleMatches(e) ==
    \E r \in rules :
        /\ r.enabled
        /\ r.priority < RuleOf(e.ruleId).priority
        /\ ~ FindRaises(r)
        /\ LET matched == find_matching_transactions(lastOp.before.transactions,
                              lastOp.before.slaves, r, page_size_default)
           IN  \E k \in 1..Len(matched) : matched[k].transactionId = e.transactionId

\* C1 (as stated): in one run of process_matching the enabled rules are
\* applied in descending priority and a transaction is categorized by at most
\* one rule: when rules P1 and P2 both match T, P1 has the higher priority
\* and P1 succeeds on T, no later rule is applied to T and the stored slaves
\* of T are the ones P1 produced.
C1_FirstMatchWins ==
    lastOp.op = "process_matching" =>
      /\ RunOrder(lastOp.applies, lastOp.details)
      /\ \A i \in 1..Len(lastOp.applies) :
            (lastOp.applies[i].success /\ LowerRuleMatches(lastOp.applies[i])) =>
                SameRows(SlavesOf(slaves, lastOp.applies[i].transactionId),
                         lastOp.applies[i].new)

\* C1 (the part that holds): the order and the skipping hold in every run,
\* and the stored slaves are the ones P1 produced when the transaction had
\* no other stored slave than the one on the Unknown sentinel.
C1_FirstMatchWinsUncategorized ==
    lastOp.op = "process_matching" =>
      /\ RunOrder(lastOp.applies, lastOp.details)
      /\ \A i \in 1..Len(lastOp.applies) :
            (lastOp.applies[i].success /\ Cardinality(lastOp.applies[i].before) = 1) =>
                SameRows(SlavesOf(slaves, lastOp.applies[i].transactionId),
                         lastOp.applies[i].new)

\* a run in which a rule succeeded on a transaction that an enabled rule of
\* lower priority matched as well
C1_Witness ==
    /\ lastOp.op = "process_matching"
    /\ \E i \in 1..Len(lastOp.applies) :
          /\ lastOp.applies[i].success
          /\ Cardinality(lastOp.applies[i].before) = 1
          /\ LowerRuleMatches(lastOp.applies[i])

\* a successful split of the slave created by the successful merge just
\* before it, of a credit and a debit master that each had a single slave
\* pointing to the Unknown sentinel
RoundTrip ==
    /\ lastOp.op = "split"
    /\ lastOp.status = 201
    /\ lastOp.merge # None
    /\ OneUnknownSlave(lastOp.merge.before.slaves, lastOp.merge.credit_transaction_id)
    /\ OneUnknownSlave(lastOp.merge.before.slaves, lastOp.merge.debit_transaction_id)

C3_AllOrNothing ==
    lastOp.op = "process_matching" =>
      \A i \in 1..Len(lastOp.applies) :
         LET e == lastOp.applies[i]
         IN  /\ e.success => SameRows(e.after, e.new)
             /\ (~ e.success) => e.after = e.before

\* C6: without store errors, every master has at least one slave and every
\* slave belongs to a master of the store.
C6_NoOrphans ==
    /\ \A t \in transactions : SlavesOf(slaves, t.transactionId) # {}
    /\ \A sl \in slaves : \E t \in transactions : t.transactionId = sl.masterId

\* a batch run that categorized a transaction of a ledger in which a merge
\* has deleted a master and a split has created one
C6_Witness ==
    /\ lastOp.op = "process_matching"
    /\ lastOp.categorized > 0
    /\ nextTxId > NumImported + 1
    /\ Cardinality(transactions) < nextTxId - 1

\* C7 (as stated): a successful merge leaves the credit total and the debit
\* total posted to every real account as they were.
C7_MergeConservesValue ==
    (lastOp.op = "merge" /\ lastOp.status = 200) =>
      \A acc \in RealAccountIds, type \in {"credit", "debit"} :
         Posted(lastOp.before.transactions, lastOp.before.slaves, acc, type)
           = Posted(transactions, slaves, acc, type)

\* the preconditions of merge on the rows it read
MergePre(b, credit_transaction_id, debit_transaction_id) ==
    \E c \in b.transactions, d \in b.transactions :
       /\ c.transactionId = credit_transaction_id
       /\ d.transactionId = debit_transaction_id
       /\ c.amount = d.amount
       /\ DateOnly(c.date) = DateOnly(d.date)
       /\ c.type = "credit"
       /\ d.type = "debit"

\* C8: a merge writes only when both transactions exist, their amounts are
\* equal, their dates are the same day, the one named credit is a credit and
\* the one named debit is a debit; otherwise it is refused (400 or 404) and
\* the store is as it was before the call.
C8_MergeChecksFirst ==
    lastOp.op = "merge" =>
      /\ lastOp.status \in {200, 400, 404}
      /\ lastOp.status = 200 =>
            MergePre(lastOp.before, lastOp.credit_transaction_id,
                     lastOp.debit_transaction_id)
      /\ lastOp.status # 200 => lastOp.before = Before

\* a merge refused for the type of the transaction named debit, every
\* earlier check having passed
C8_Witness ==
    /\ lastOp.op = "merge"
    /\ lastOp.status = 400
    /\ lastOp.detail = "Debit transaction must have type 'debit'"

\* C9: after a successful merge the credit master is kept with exactly one
\* slave (the debit transaction's account and amount, type debit), and the
\* debit transaction and its slaves are gone.
C9_MergeEffect ==
    (lastOp.op = "merge" /\ lastOp.status = 200) =>
      LET c == TxIn(lastOp.before, lastOp.credit_transaction_id)
          d == TxIn(lastOp.before, lastOp.debit_transaction_id)
      IN  /\ c \in transactions
          /\ \E sl \in slaves :
                /\ SlavesOf(slaves, c.transactionId) = {sl}
                /\ sl.accountId = d.accountId
                /\ sl.amount = d.amount
                /\ sl.type = "debit"
          /\ TxById(transactions, d.transactionId) = {}
          /\ SlavesOf(slaves, d.transactionId) = {}

\* a successful merge of transactions that both had several slaves
C9_Witness ==
    /\ lastOp.op = "merge"
    /\ lastOp.status = 200
    /\ Cardinality(SlavesOf(lastOp.before.slaves, lastOp.credit_transaction_id)) > 1
    /\ Cardinality(SlavesOf(lastOp.before.slaves, lastOp.debit_transaction_id)) > 1

\* the debit and credit totals of {master, slave} and of the master and slave
\* a split would create
SplitTotalsAgree(t, sl) ==
    \A type \in {"debit", "credit"} :
       SumAmounts(SelectType(<<t, sl>>, type))
         = SumAmounts(SelectType(<<SplitNewTransaction(t, sl),
                                   SplitNewSlave(t, sl)>>, type))

\* the preconditions of split on the rows it read
SplitPre(b, transaction_id, slave_id) ==
    \E t \in b.transactions, sl \in b.slaves :
       /\ t.transactionId = transaction_id
       /\ sl.slaveId = slave_id
       /\ sl.masterId = transaction_id
       /\ AccountTable[sl.accountId].is_real
       /\ SplitTotalsAgree(t, sl)

\* C10: a split writes only when the transaction exists, the slave is one of
\* its slaves, the slave's account is real and the debit and credit totals
\* agree; otherwise it is refused (400 or 404) and the store is as it was
\* before the call.
C10_SplitChecksFirst ==
    lastOp.op = "split" =>
      /\ lastOp.status \in {201, 400, 404}
      /\ lastOp.status = 201 =>
            SplitPre(lastOp.before, lastOp.transaction_id, lastOp.slave_id)
      /\ lastOp.status # 201 => lastOp.before = Before

\* a split refused by the totals check, the slave being on a real account
C10_Witness ==
    /\ lastOp.op = "split"
    /\ lastOp.status = 400
    /\ lastOp.detail = "Balance validation failed"

SlaveIn(b, id) == CHOOSE sl \in b.slaves : sl.slaveId = id

-----------------------------------------------------------------------------
(* Properties of one call of process()                                     *)

\* C12: for the registered processors the shared checks come before any
\* check of the processor itself, in a fixed order: a transaction that does
\* not have exactly one slave fails with the slave-count error whatever else
\* is wrong with it; otherwise a slave that is not on the Unknown sentinel
\* fails with the error naming the account; a balance error is reported only
\* when both earlier checks pass.
C12_SharedChecksFirst ==
    (pOut # None /\ pIn.processor_type \in Registry) =>
      LET embedded == pIn.transaction.TransactionsSlaves
          result   == pOut.result
      IN  /\ Len(embedded) # 1 =>
                (~ result.success /\ result.error_message = "slave_count")
          /\ (Len(embedded) = 1 /\ ~ is_unknown(embedded[1].Accounts)) =>
                (~ result.success /\ result.error_message = "not_unknown")
          /\ result.error_message = "balance" =>
                (Len(embedded) = 1 /\ is_unknown(embedded[1].Accounts))

\* the checks LoanProcessor.process makes itself, before the shared ones
LoanOwnErrors == {"not_debit", "before_start", "exceeds_term"}

\* C12 (amended): the shared checks run in a fixed order, after the checks
\* the loan processor makes itself (master type, then loan term): unless one
\* of those loan checks fails, a transaction that does not have exactly one
\* slave fails with the slave-count error, otherwise a slave that is not on
\* the Unknown sentinel fails with the error naming the account, and a
\* balance error is reported only when both earlier checks pass; the loan
\* checks fail exactly on a master that is not a debit or whose payment
\* number is outside the loan term, and simple_split has no check of its own.
C12_SharedChecksOrder ==
    (pOut # None /\ pIn.processor_type \in Registry) =>
      LET transaction == pIn.transaction
          embedded == transaction.TransactionsSlaves
          result   == pOut.result
          own      == result.error_message \in LoanOwnErrors
      IN  /\ own <=>
                /\ pIn.processor_type = "loan"
                /\ \/ transaction.type # "debit"
                   \/ get_payment_number(transaction.date, pIn.config.start_date) = 0
                   \/ get_payment_number(transaction.date, pIn.config.start_date)
                        > pIn.config.duration_months
          /\ own => ~ result.success
          /\ (~ own /\ Len(embedded) # 1) =>
                (~ result.success /\ result.error_message = "slave_count")
          /\ (~ own /\ Len(embedded) = 1 /\ ~ is_unknown(embedded[1].Accounts)) =>
                (~ result.success /\ result.error_message = "not_unknown")
          /\ result.error_message = "balance" =>
                (Len(embedded) = 1 /\ is_unknown(embedded[1].Accounts))

\* a loan payment inside the loan term, on a debit master that carries two
\* slaves and whose slaves would not balance, refused for its slave count
C12_Witness ==
    /\ pOut # None
    /\ pIn.processor_type = "loan"
    /\ pIn.transaction.type = "debit"
    /\ pIn.transaction.amount < 0
    /\ Len(pIn.transaction.TransactionsSlaves) = 2
    /\ pOut.result.error_message = "slave_count"

\* C13: every slave returned by a successful process() of the simple_split
\* or the loan processor has a non-negative amount, for every valid config
\* and every master whose amount is non-negative.
C13_NonNegativeSlaves ==
    (/\ pOut # None
     /\ pIn.processor_type \in {"simple_split", "loan"}
     /\ pIn.transaction.amount >= 0
     /\ pOut.result.success) =>
        \A i \in 1..Len(pOut.result.slaves) : pOut.result.slaves[i].amount >= 0

------------------------------------------------------------------------\* the payment number of the claim: months between the two dates, the day
\* of the month left out, counted from 1
PaymentNumberOf(transaction_date, start_date) ==
    (transaction_date.y - start_date.y) * 12 + (transaction_date.m - start_date.m) + 1

\* C19: LoanProcessor.process fails and returns no slaves when the
\* transaction is not a debit, when its month is before the start month of
\* the loan or when its payment number k is greater than duration_months;
\* it succeeds only when 1 <= k <= duration_months
C19_LoanRejects ==
    pOut # None /\ pIn.processor_type = "loan" =>
        /\ ( \/ pIn.transaction.type # "debit"
             \/ PaymentNumberOf(pIn.transaction.date, pIn.config.start_date) < 1
             \/ PaymentNumberOf(pIn.transaction.date, pIn.config.start_date)
                    > pIn.config.duration_months )
               => ~pOut.result.success /\ pOut.result.slaves = <<>>
        /\ pOut.result.success =>
               /\ pIn.transaction.type = "debit"
               /\ PaymentNumberOf(pIn.transaction.date, pIn.config.start_date) >= 1
               /\ PaymentNumberOf(pIn.transaction.date, pIn.config.start_date)
                      <= pIn.config.duration_months
        /\ ~pOut.result.success => pOut.result.slaves = <<>>

\* a debit whose day of the month is before the day of start_date, in the
\* month after the last payment of the loan: it is refused for its payment
\* number
C19_Witness ==
    /\ pOut # None
    /\ pIn.processor_type = "loan"
    /\ pIn.transaction.type = "debit"
    /\ Len(pIn.transaction.TransactionsSlaves) = 1
    /\ pIn.transaction.date.d < pIn.config.start_date.d
    /\ PaymentNumberOf(pIn.transaction.date, pIn.config.start_date)
           = pIn.config.duration_months + 1
    /\ ~pOut.result.success
    /\ pOut.result.error_message = "exceeds_term"

\* the interest of period k in the amortization schedule of the loan
ScheduleInterest ==
    calculate_payment_breakdown(
        PaymentNumberOf(pIn.transaction.date, pIn.config.start_date),
        pIn.config, pOut.tie).interest

\* the interest slave and the capital slave of a successful loan payment:
\* both credits, the first carrying the schedule interest of period k and
\* the second the paid amount minus that interest, rounded to two decimals
LoanSlavesAsClaimed ==
    /\ Len(pOut.result.slaves) = 2
    /\ \A i \in 1..2 : pOut.result.slaves[i].type = "credit"
    /\ pOut.result.slaves[1].accountId = pIn.config.interest_account_id
    /\ pOut.result.slaves[2].accountId = pIn.config.capital_account_id
    /\ pOut.result.slaves[1].amount = ScheduleInterest
    /\ pOut.result.slaves[2].amount
           = Round2(Abs(pIn.transaction.amount) - ScheduleInterest, 1, pOut.tie.gen)

C25_TaggedResult ==
    pOut # None /\ pIn.processor_type \in {"simple_split", "loan", "salary"} =>
        \/ /\ pOut.result.success
           /\ pOut.result.slaves # <<>>
           /\ pOut.result.error_message = "none"
        \/ /\ ~pOut.result.success
           /\ pOut.result.slaves = <<>>
           /\ pOut.result.error_message # "none"

\* a call of the salary processor, which raises NotImplementedError inside
\* process() and returns it as a failure
C25_Witness ==
    /\ pOut # None
    /\ pIn.processor_type = "salary"
    /\ Len(pIn.transaction.TransactionsSlaves) = 1
    /\ ~pOut.result.success
    /\ pOut.result.error_message = "not_implemented"

-----
(* Properties of find_matching_transactions on the stored ledger           *)

\* the rows find_matching_transactions returns for a rule on the store
Matched(rule) ==
    SeqRange(find_matching_transactions(transactions, slaves, rule,
                                         page_size_default))

\* C14: every transaction returned by find_matching_transactions for a rule
\* has, in the store, exactly one slave, which points to the Unknown
\* sentinel, and it satisfies the account filter and the transaction-type
\* filter of the rule; a master with several slaves, one of them on Unknown,
\* is never returned.
C14_CandidatesUncategorized ==
    \A rule \in rules :
       ~ FindRaises(rule) =>
          \A row \in Matched(rule) :
             /\ OneUnknownSlave(slaves, row.transactionId)
             /\ rule.account_ids # {} => row.accountId \in rule.account_ids
             /\ rule.processor_config.transaction_filter # "all"
                   => row.type = rule.processor_config.transaction_filter

-----------------------------------------------------------------------------
(* Properties of one call of find_matching_transactions                    *)

\* the candidate universe of a rule: one stored slave, on the Unknown
\* sentinel, and the account and transaction-type filters of the rule
Candidate(tx, rule) ==
    /\ OneUnknownSlave(slaves, tx.transactionId)
    /\ rule.account_ids # {} => tx.accountId \in rule.account_ids
    /\ rule.processor_config.transaction_filter # "all"
          => tx.type = rule.processor_config.transaction_filter

Holds(tx, condition) ==
    CASE condition.match_type = "contains" ->
            \E i \in 1..Len(tx.description) : \E j \in i..Len(tx.description) :
               SubSeq(tx.description, i, j) = condition.match_value
      [] condition.match_type = "starts_with" ->
            \E j \in 1..Len(tx.description) :
               SubSeq(tx.description, 1, j) = condition.match_value
      [] condition.match_type = "exact" -> tx.description = condition.match_value
      [] condition.match_type = "amount_gt"  -> tx.amount > condition.match_value
      [] condition.match_type = "amount_lt"  -> tx.amount < condition.match_value
      [] condition.match_type = "amount_gte" -> tx.amount >= condition.match_value
      [] condition.match_type = "amount_lte" -> tx.amount <= condition.match_value
      [] condition.match_type = "amount_eq"  -> tx.amount = condition.match_value

\* an AND group is satisfied when every condition holds, an OR group when
\* at least one does; an empty group is satisfied by nothing
GroupSatisfied(tx, group) ==
    /\ group.conditions # <<>>
    /\ IF group.operator = "AND"
       THEN \A i \in 1..Len(group.conditions) : Holds(tx, group.conditions[i])
       ELSE \E i \in 1..Len(group.conditions) : Holds(tx, group.conditions[i])

RuleSatisfied(tx, rule) ==
    \E g \in 1..Len(rule.condition_groups) :
        GroupSatisfied(tx, rule.condition_groups[g])

-----------------------------------------------------------------------------
(* Properties of a batch run                                               *)

\* the calls of apply_processor_to_transaction of the last run that
\* succeeded, and those that failed
Successes(a) == {i \in 1..Len(a) : a[i].success}

Failures(a) == {i \in 1..Len(a) : ~ a[i].success}

\* C16: in a batch run a failure on one matched transaction is counted in
\* `failed` and stops neither the rule nor the run: every transaction an
\* enabled rule matched is passed to that rule's processor unless another
\* rule has categorized it in this run; processed = categorized + failed,
\* and the details hold exactly one entry for each categorized transaction.
C16_ContinueOnError ==
    (lastOp.op = "process_matching" /\ lastOp.status = 200) =>
      LET a == lastOp.applies
      IN  /\ lastOp.processed = Len(a)
          /\ lastOp.failed = Cardinality(Failures(a))
          /\ lastOp.categorized = Cardinality(Successes(a))
          /\ lastOp.processed = lastOp.categorized + lastOp.failed
          /\ Len(lastOp.details) = lastOp.categorized
          /\ \A i \in Successes(a) :
                Cardinality({k \in 1..Len(lastOp.details) :
                    lastOp.details[k].transaction_id = a[i].transactionId}) = 1
          /\ \A k \in 1..Len(lastOp.details) :
                \E i \in Successes(a) :
                   /\ a[i].transactionId = lastOp.details[k].transaction_id
                   /\ a[i].ruleId = lastOp.details[k].matched_rule
          /\ \A rule \in rules :
                rule.enabled =>
                   \A row \in SeqRange(find_matching_transactions(
                                  lastOp.before.transactions, lastOp.before.slaves,
                                  rule, page_size_default)) :
                      \/ \E i \in 1..Len(a) :
                            /\ a[i].ruleId = rule.ruleId
                            /\ a[i].transactionId = row.transactionId
                      \/ \E i \in Successes(a) :
                            /\ a[i].ruleId # rule.ruleId
                            /\ a[i].transactionId = row.transactionId

\* a run in which a rule failed on every transaction, the next rule failed
\* on one transaction and then categorized another
C16_Witness ==
    /\ lastOp.op = "process_matching"
    /\ lastOp.status = 200
    /\ \E h, i, j \in 1..Len(lastOp.applies) :
          /\ h < i /\ i < j
          /\ ~ lastOp.applies[h].success
          /\ lastOp.applies[h].ruleId # lastOp.applies[i].ruleId
          /\ ~ lastOp.applies[i].success
          /\ lastOp.applies[i].ruleId = lastOp.applies[j].ruleId
          /\ lastOp.applies[i].transactionId # lastOp.applies[j].transactionId
          /\ lastOp.applies[j].success

-----------------------------------------------------------------------------
(* Properties of the transfer candidates and of the rejected pairs         *)

\* the candidate list of the last call holds the pair (c, d)
Returned(c, d) ==
    \E k \in lastOp.candidates :
        k.credit_transaction = c /\ k.debit_transaction = d

\* a call of the candidate endpoint on the current store would return the
\* pair (c, d)
WouldReturn(c, d) ==
    \A flipped \in SUBSET TransferPairs(transactions, slaves, rejected) :
        \E k \in get_transfer_candidates(
                     RpcRows(TransferPairs(transactions, slaves, rejected), flipped)) :
            k.credit_transaction = c /\ k.debit_transaction = d

SameDay(c, d) ==
    c.date.y = d.date.y /\ c.date.m = d.date.m /\ c.date.d = d.date.d

\* a credit and a debit of equal amount on the same calendar day
Pairable(c, d) ==
    c.type = "credit" /\ d.type = "debit" /\ c.amount = d.amount /\ SameDay(c, d)

NoRealSlave(tx) ==
    \A sl \in slaves : sl.masterId = tx.transactionId => ~AccountTable[sl.accountId].is_real

OneSlaveNotReal(tx) ==
    /\ \E sl \in slaves : sl.masterId = tx.transactionId
    /\ \A sl \in slaves, other \in slaves :
          sl.masterId = tx.transactionId /\ other.masterId = tx.transactionId
              => sl = other /\ ~AccountTable[sl.accountId].is_real

\* the unordered pair {a, b} has a row in the table of rejected pairs
CurrentlyRejected(a, b) ==
    \E r \in rejected : {r.transaction_id_1, r.transaction_id_2} = {a, b}

\* the transactions the last reject or unreject named
NamedByReject == {lastOp.credit_transaction_id, lastOp.debit_transaction_id}

NamedByUnreject == {ParseUuid(lastOp.tx1_id), ParseUuid(lastOp.tx2_id)}

RowsOfPair(rej, S) ==
    {r \in rej : {r.transaction_id_1, r.transaction_id_2} = S}

\* what the claim says of a reject: a second reject of the pair, in either
\* order, is a conflict and adds no row; a first one adds the canonical row
RejectPerPair ==
    lastOp.op = "reject" =>
        IF RowsOfPair(lastOp.before, NamedByReject) # {}
        THEN lastOp.status = 409 /\ rejected = lastOp.before
        ELSE /\ lastOp.status = 201
             /\ \E r \in rejected :
                   /\ r.transaction_id_1 < r.transaction_id_2
                   /\ RowsOfPair(rejected, NamedByReject) = {r}
                   /\ rejected = lastOp.before \cup {r}

\* what the claim says of an unreject: in either order it deletes the row of
\* the pair, and it is not-found, with the table as it was, when the pair
\* is not rejected
UnrejectPerPair ==
    lastOp.op = "unreject" =>
        IF RowsOfPair(lastOp.before, NamedByUnreject) # {}
        THEN /\ lastOp.status = 204
             /\ rejected = lastOp.before \ RowsOfPair(lastOp.before, NamedByUnreject)
        ELSE lastOp.status = 404 /\ rejected = lastOp.before

\* C18: rejections are stored per unordered pair, under the canonical row
\* (smaller id first): a second reject of the pair in either order is a
\* conflict and adds no row, an unreject in either order deletes the row,
\* and an unreject of a pair that is not rejected is not-found and leaves the
\* table unchanged
C18_UnorderedPair ==
    /\ \A r \in rejected :
          r.transaction_id_1 < r.transaction_id_2
              /\ RowsOfPair(rejected, {r.transaction_id_1, r.transaction_id_2}) = {r}
    /\ RejectPerPair
    /\ UnrejectPerPair

\* the part of C18 that holds: the rows and the rejects always, the unrejects
\* whose two ids are written in the same letter case
C18_UnorderedPairSameCase ==
    /\ \A r \in rejected :
          r.transaction_id_1 < r.transaction_id_2
              /\ RowsOfPair(rejected, {r.transaction_id_1, r.transaction_id_2}) = {r}
    /\ RejectPerPair
    /\ (lastOp.op = "unreject" /\ lastOp.tx1_id.upper = lastOp.tx2_id.upper
            => UnrejectPerPair)

-----------------------------------------------------------------------------
(* Properties of one call of calculate_payment_breakdown                   *)

\* the call was of the final period of the loan
FinalPeriod == pOut # None /\ pIn.payment_number = pIn.config.duration_months

\* principal plus interest of the returned breakdown, less the monthly
\* payment, as a fraction of mills
PayoffGap ==
    RSub(RInt(pOut.breakdown.principal + pOut.breakdown.interest), pOut.monthly_payment)

\* C21 as stated: the breakdown of the final period has remaining balance 0
\* and its principal plus its interest equals the monthly payment
C21_PayoffExact ==
    FinalPeriod => pOut.breakdown.remaining = 0 /\ PayoffGap = RInt(0)

\* C21, amended: the breakdown of the final period has remaining balance 0
\* and its principal plus its interest, both rounded to two decimals, is
\* within 0.01 of the monthly payment
C21_Payoff ==
    FinalPeriod =>
        /\ pOut.breakdown.remaining = 0
        /\ Abs(PayoffGap[1]) <= 10 * PayoffGap[2]

\* the final period of a loan of several months with interest, whose monthly
\* payment is not a whole number of cents
C21_Witness ==
    /\ FinalPeriod
    /\ pIn.config.duration_months > 1
    /\ pIn.config.annual_rate > 0
    /\ pOut.breakdown.interest > 0
    /\ pOut.monthly_payment[2] > 1

\* a simple_split config as the claim accepts it: at least one split, every
\* percentage above 0 and at most 100, the percentages summing to 100
AcceptableSplits(config) ==
    /\ config.splits # <<>>
    /\ \A sp \in SeqRange(config.splits) : 0 < sp.percentage /\ sp.percentage <= 10000
    /\ SumPercentages(config.splits) = 10000

\* the calls of apply_processor_to_transaction of the last batch run that
\* were made for a simple_split rule
SimpleSplitApplies ==
    {i \in 1..Len(lastOp.applies) :
        RuleOf(lastOp.applies[i].ruleId).processor_type = "simple_split"}

\* C22: a simple_split config is accepted only if it has at least one split,
\* every percentage is above 0 and at most 100 and the percentages sum to
\* 100; a config that is not is refused when it is parsed: process() does not
\* run, no slave is returned and the stored slaves of the transaction are
\* the ones it had
C22_ConfigRejectedAtParse ==
    lastOp.op = "process_matching" /\ lastOp.status = 200 =>
        \A i \in SimpleSplitApplies :
            /\ lastOp.applies[i].success =>
                   AcceptableSplits(RuleOf(lastOp.applies[i].ruleId).processor_config)
            /\ ~AcceptableSplits(RuleOf(lastOp.applies[i].ruleId).processor_config) =>
                   /\ ~lastOp.applies[i].success
                   /\ lastOp.applies[i].error = "invalid_config"
                   /\ lastOp.applies[i].new = <<>>
                   /\ lastOp.applies[i].after = lastOp.applies[i].before

\* a run in which a config whose percentages do not sum to 100 and a config
\* with a percentage out of range were refused for a transaction that a
\* later rule of the run categorized
C22_Witness ==
    /\ lastOp.op = "process_matching"
    /\ lastOp.status = 200
    /\ \E i \in SimpleSplitApplies, j \in SimpleSplitApplies, k \in SimpleSplitApplies :
          /\ i < k /\ j < k
          /\ lastOp.applies[i].transactionId = lastOp.applies[k].transactionId
          /\ lastOp.applies[j].transactionId = lastOp.applies[k].transactionId
          /\ lastOp.applies[i].error = "invalid_config"
          /\ lastOp.applies[j].error = "invalid_config"
          /\ SumPercentages(RuleOf(lastOp.applies[i].ruleId).processor_config.splits) # 10000
          /\ SumPercentages(RuleOf(lastOp.applies[j].ruleId).processor_config.splits) = 10000
          /\ lastOp.applies[k].success

-----------------------------------------------------------------------------
(* Properties of one call of _validate_transaction                         *)

\* the call reached the balance check: one slave, on the Unknown account
ReachedBalanceCheck ==
    /\ pOut # None
    /\ Len(pIn.transaction.TransactionsSlaves) = 1
    /\ is_unknown(pIn.transaction.TransactionsSlaves[1].Accounts)

\* what the net total of the new slaves differs from the master amount by
BalanceGap == Abs(SignedMaster(pIn.transaction) - SignedSlaves(pIn.new_slaves))

\* C23: the balance check has a tolerance of 0.01: new slaves whose net
\* total differs from the master amount by less than 0.01 are accepted, and
\* by more than 0.01 are refused with a balance mismatch
C23_Tolerance ==
    ReachedBalanceCheck =>
        /\ BalanceGap < 10 => pOut.check = "ok"
        /\ BalanceGap > 10 => pOut.check = "balance"

\* the half of C23 that holds: a difference of more than 0.01 is refused,
\* and so is every difference that leaves the two rounded values apart
C23_RefusedAboveTolerance ==
    ReachedBalanceCheck => (BalanceGap > 10 => pOut.check = "balance")

\* the ids of a set of masters
IdsOf(txs) == {t.transactionId : t \in txs}

\* C24: apply, merge and split never change the amount, type, date or
\* account of a master that exists before and after the call: a batch run
\* leaves the table of masters as it is, a merge only deletes the debit
\* master, a split only inserts one new master
C24_MastersUnchanged ==
    lastOp.op \in {"process_matching", "merge", "split"} =>
        /\ \A t \in transactions, b \in lastOp.before.transactions :
              t.transactionId = b.transactionId =>
                  /\ t.amount = b.amount
                  /\ t.type = b.type
                  /\ t.date = b.date
                  /\ t.accountId = b.accountId
        /\ lastOp.op = "process_matching" =>
              IdsOf(transactions) = IdsOf(lastOp.before.transactions)
        /\ lastOp.op = "merge" /\ lastOp.status = 200 =>
              IdsOf(transactions)
                  = IdsOf(lastOp.before.transactions) \ {lastOp.debit_transaction_id}
        /\ lastOp.op = "merge" /\ lastOp.status # 200 =>
              IdsOf(transactions) = IdsOf(lastOp.before.transactions)
        /\ lastOp.op = "split" /\ lastOp.status = 201 =>
              IdsOf(transactions)
                  = IdsOf(lastOp.before.transactions) \cup {lastOp.created_transaction_id}
        /\ lastOp.op = "split" /\ lastOp.status # 201 =>
              IdsOf(transactions) = IdsOf(lastOp.before.transactions)

\* a split, after a merge and a batch run that categorized a master, with
\* the master it was called on still in the store
C24_Witness ==
    /\ lastOp.op = "split"
    /\ lastOp.status = 201
    /\ \E t \in transactions : t.transactionId = lastOp.transaction_id
    /\ \E sl \in slaves : sl.accountId = "acc_food"
    /\ Cardinality(transactions) = Cardinality(lastOp.before.transactions) + 1

\* the stored slaves of a master, as a sequence
StoredSlaves(t) == SlaveSeq(SlavesOf(slaves, t.transactionId))

\* C26: after any sequence of completed batch runs, merges and splits on a
\* ledger in which every master starts with one Unknown slave of equal
\* amount and opposite type, every master of the store balances against its
\* stored slaves: its signed amount is the negated difference of the credit
\* and the debit totals of its slaves
C26_StoredBalance ==
    \A t \in transactions : SignedMaster(t) = SignedSlaves(StoredSlaves(t))

\* the same up to the rounding of the validator: the two values agree once
\* rounded to two decimals, whichever way a half cent goes
C26_StoredBalanceRounded ==
    \A t \in transactions :
        \E up_m \in BOOLEAN, up_s \in BOOLEAN :
            Round2(SignedMaster(t), 1, up_m)
                = Round2(SignedSlaves(StoredSlaves(t)), 1, up_s)

\* merges and splits alone keep every master balanced: with no rule in the
\* store the batch changes nothing, and the balance is exact
C26_StoredBalanceMergeSplit == rules = {} => C26_StoredBalance

\* C27: a successful split creates or destroys no value: for every real
\* account the credit total and the debit total posted to it, as the account
\* of a master or of a slave, are the same before and after the split
C27_SplitConservesValue ==
    (lastOp.op = "split" /\ lastOp.status = 201) =>
      \A acc \in RealAccountIds, type \in {"credit", "debit"} :
         Posted(lastOp.before.transactions, lastOp.before.slaves, acc, type)
           = Posted(transactions, slaves, acc, type)

\* what a successful split does conserve: the postings on the account of the
\* split slave (the slave's posting becomes the new master's), and the credit
\* and debit totals over all accounts but the Unknown one grow by exactly the
\* new slave, posted on the account of the original master
C27_SplitSlaveAccountConserved ==
    (lastOp.op = "split" /\ lastOp.status = 201) =>
      \E t \in lastOp.before.transactions, sl \in lastOp.before.slaves :
         /\ t.transactionId = lastOp.transaction_id
         /\ sl.slaveId = lastOp.slave_id
         /\ \A acc \in RealAccountIds, type \in {"credit", "debit"} :
               Posted(transactions, slaves, acc, type)
                 = Posted(lastOp.before.transactions, lastOp.before.slaves,
                          acc, type)
                   + (IF acc = t.accountId /\ type = Opposite(sl.type)
                      THEN sl.amount ELSE 0)

\* a completed batch run directly followed by another one
TwoRunsInARow ==
    /\ lastOp.op = "process_matching"
    /\ lastOp.status = 200
    /\ lastOp'.op = "process_matching"
    /\ lastOp'.status = 200

\* C28: the batch is idempotent: of two runs of process_matching in a row,
\* with the same rules and no other change to the ledger, the second one
\* categorizes no transaction and leaves every stored slave unchanged
C28_Idempotent ==
    [][TwoRunsInARow => (lastOp'.categorized = 0 /\ slaves' = slaves)]_vars

\* what the second run does leave alone: the slaves of every master that
\* has no slave on the Unknown account when it starts
C28_CategorizedLeftAlone ==
    [][TwoRunsInARow =>
         \A t \in transactions :
            (\A sl \in SlavesOf(slaves, t.transactionId) :
                 sl.accountId # "acc_unknown")
              => /\ SlavesOf(slaves', t.transactionId)
                      = SlavesOf(slaves, t.transactionId)
                 /\ \A i \in 1..Len(lastOp'.details) :
                       lastOp'.details[i].transaction_id # t.transactionId]_vars

\* the rules of the store whose conditions can all be evaluated
EvaluableRules == {r \in rules : ~FindRaises(r)}

\* the store a batch run read
DbBefore == Db(lastOp.before.transactions, lastOp.before.slaves,
               lastOp.before.nextTxId, lastOp.before.nextSlaveId)

\* the run did what a run over the rules of R alone does: same calls of
\* apply in the same order, same counts, same stored slaves
RanAs(R) ==
    \E tie \in LedgerTies :
        \E ref \in {process_matching(DbBefore, R, tie, 0)} :
            /\ lastOp.applies = ref.applies
            /\ lastOp.processed = ref.processed
            /\ lastOp.categorized = ref.categorized
            /\ lastOp.failed = ref.failed
            /\ slaves = ref.d.slaves

\* C29: an enabled rule whose conditions cannot be evaluated (a condition
\* with an unknown match type) does not stop the batch: the run returns its
\* aggregate counts and the other enabled rules, those of lower priority
\* included, are applied as they are without that rule
C29_RuleErrorSkipped ==
    (lastOp.op = "process_matching"
        /\ \E r \in rules : r.enabled /\ FindRaises(r)) =>
      /\ lastOp.status = 200
      /\ RanAs(EvaluableRules)

\* the enabled rules that come before every rule that cannot be evaluated
RulesBeforeRaise ==
    {r \in rules :
        /\ r.enabled
        /\ \E i \in 1..Len(EnabledRules(rules)) :
              /\ EnabledRules(rules)[i] = r
              /\ \A j \in 1..i : ~FindRaises(EnabledRules(rules)[j])}

\* what the run does instead: it ends with HTTP 500 at the first rule that
\* cannot be evaluated; the rules before it have been applied and their
\* writes stay, the rules after it are not applied
C29_RuleErrorAborts ==
    (lastOp.op = "process_matching"
        /\ \E r \in rules : r.enabled /\ FindRaises(r)) =>
      /\ lastOp.status = 500
      /\ RanAs(RulesBeforeRaise)

-----------------------------------------------------------------------------
(* Properties of the pagination loops                                      *)

\* the candidates that satisfy the group of the rule
Satisfying ==
    {tx \in transactions :
        Candidate(tx, pIn.rule) /\ RuleSatisfied(tx, pIn.rule)}

\* every one of them is in all_matched, once
PagesComplete ==
    \A tx \in Satisfying :
        Cardinality({k \in 1..Len(pOut.all_matched) :
            pOut.all_matched[k].transactionId = tx.transactionId}) = 1

\* the loop has returned
PagesDone == pOut.done

\* C30: for any store and any page size of at least 1 the offset-pagination
\* loops of AND and OR matching terminate, and what they return holds every
\* candidate transaction that satisfies the conditions, also when the number
\* of matching rows is an exact multiple of the page size and when rows of a
\* page are dropped by the single-slave filter
C30_PagesTerminateComplete == <>[](PagesDone /\ PagesComplete)

\* a loop that has returned after a full page all of whose rows were dropped
\* by the single-slave filter, more pages than rows returned, the last page
\* read being empty: the number of selected rows is a multiple of page_size
C30_Witness ==
    /\ pOut.done
    /\ pIn.page_size = 1
    /\ pOut.pages > Len(pOut.all_matched) + 1
    /\ \E tx \in transactions, ty \in transactions :
          /\ tx.transactionId < ty.transactionId
          /\ Cardinality({sl \in SlavesOf(slaves, tx.transactionId) :
                             sl.accountId = UnknownId}) = 2
          /\ RuleSatisfied(tx, pIn.rule)
          /\ Candidate(ty, pIn.rule)
          /\ \E k \in 1..Len(pOut.all_matched) :
                pOut.all_matched[k].transactionId = ty.transactionId

\* the loop read page by page returns what find_matching_transactions
\* returns, and never reads more pages than one per selected row and one
\* more for each condition
C30_LoopIsFindMatching ==
    pOut.done =>
      /\ pOut.all_matched
           = find_matching_transactions(transactions, slaves, pIn.rule,
                                        pIn.page_size)
      /\ pOut.pages <= (Cardinality(transactions) + 1)
                          * Len(pIn.rule.condition_groups[1].conditions)

====
